---- MODULE Spec2Model ----
\* Model of the AtlasGTO data-integration core:
\*   - the Layer State Store (src/src/lib/layerManager.ts, AtlasLayerManager)
\*   - the Join Engine (joinDataWithGeometries and its dataLoader helpers)
\*   - the Classification (createChoroplethMapping and the function it returns)
\*   - the GeoJSON Validator (validateGeoJSONIntegrity against the INEGI catalog)
\*   - the GeoJSON Correction (createCorrectedGeoJSON)
\*   - the Crosswalk (the code conversions and validateCodeAlignment)
\* JavaScript objects are modelled with reference semantics: the LayerState
\* objects live in `heap`, the Map `layers` and every snapshot array hold
\* references to them.
EXTENDS Integers, Sequences, FiniteSets, TLC

\* ---------------------------------------------------------------- bounds

\* how many of the configured layer ids the callers pass to the operations
\* (an id that is not configured is always among the inputs as well)
MaxIds == 2
\* how many distinct listener functions exist
MaxListeners == 2
\* setLayerData is called with dataCount in 0..MaxCount, or without it
MaxCount == 0
\* the geometry collections have at most MaxFeatures features
MaxFeatures == 2
\* the datasets have at most MaxRecords records
MaxRecords == 2
\* the joined collections handed to the classification have at most
\* MaxMapped features
MaxMapped == 5
\* the collections handed to the validator have at most MaxChecked features
MaxChecked == 2
\* the arrays handed to validateCodeAlignment have at most MaxCodes codes
MaxCodes == 2

\* ------------------------------------------------------- static configuration

\* the value of the optional dataCount when it is not set (JavaScript `undefined`)
Undefined == -1

\* the value of the optional lastUpdated when it is not set
NoDate == "undefined"

\* the values `new Date()` yields
Dates == {"t1"}

\* ATLAS_LAYERS in Object.entries order: key, config.id, config.name,
\* config.description, config.visualization (accents dropped from the strings)
ATLAS_LAYERS ==
    << [key |-> "indice_riesgo", id |-> "indice_riesgo", name |-> "Indice de Riesgo",
        description |-> "Indice compuesto de riesgo para mujeres buscadoras por municipio (0-100)",
        visualization |-> "choropleth"],
       [key |-> "desapariciones", id |-> "desapariciones", name |-> "Desapariciones",
        description |-> "Casos de desaparicion por municipio con visualizacion de densidad",
        visualization |-> "hybrid"],
       [key |-> "homicidios", id |-> "homicidios", name |-> "Homicidios",
        description |-> "Homicidios dolosos por municipio con mapa de calor",
        visualization |-> "hybrid"],
       [key |-> "tomas_clandestinas", id |-> "tomas_clandestinas", name |-> "Tomas Clandestinas",
        description |-> "Densidad de tomas clandestinas de combustible por municipio",
        visualization |-> "heatmap"],
       [key |-> "rezago_social", id |-> "rezago_social", name |-> "Rezago Social",
        description |-> "Indice de rezago social municipal por quintiles",
        visualization |-> "choropleth"],
       [key |-> "capacidad_instalada", id |-> "capacidad_instalada", name |-> "Capacidad Institucional",
        description |-> "Infraestructura institucional disponible para busqueda",
        visualization |-> "markers"] >>

\* the layer that is visible by default
PrimaryLayer == "indice_riesgo"

\* an id no layer is configured with
UnknownId == "no_such_layer"

ConfiguredIds == { ATLAS_LAYERS[i].key : i \in DOMAIN ATLAS_LAYERS }

\* the first n configured ids, and an id that is not configured
FirstIds(n) == { ATLAS_LAYERS[i].key : i \in { j \in DOMAIN ATLAS_LAYERS : j <= n } } \cup {UnknownId}

\* the ids the visibility operations are called with
OpIds == FirstIds(MaxIds)

\* the ids setLayerLoading and setLayerData are called with: the layer the
\* map component loads data for, and an id that is not configured
DataIds == {"desapariciones", UnknownId}

\* the listener functions; each is one JavaScript function value
Listeners == 1..MaxListeners

\* what a listener's body does besides reading its argument
Passive == <<"none", 0>>
Behaviours == {Passive} \cup { <<k, l>> : k \in {"unsubscribe", "subscribe"}, l \in Listeners }

VARIABLES
    heap,       \* reference -> LayerState object
    layers,     \* the Map: sequence of [key, ref] entries in insertion order
    listeners,  \* the Set of listeners, in insertion order
    body,       \* listener -> what its body does when invoked
    calls,      \* the listener invocations made by the last operation
    lastOp,     \* the last operation called: its name, the arguments passed, its result
    held        \* the array a caller obtained from getLayers, <<>> before

storeVars == <<heap, layers, listeners, body, calls, lastOp, held>>

VARIABLES
    geoJson,    \* geoJson.features: the properties of each geometry feature
    dataFile,   \* dataFile.records
    options,    \* the options argument of joinDataWithGeometries
    joined      \* what joinDataWithGeometries returned, once it has been called

joinVars == <<geoJson, dataFile, options, joined>>

VARIABLES
    enhancedGeoJson, \* the features of the joined collection given to createChoroplethMapping
    colorScale,      \* its colorScale argument
    mapOptions,      \* its options argument
    getColor         \* the function it returned: what the closure captured

mapVars == <<enhancedGeoJson, colorScale, mapOptions, getColor>>

VARIABLES
    geoJsonData,     \* the collection given to validateGeoJSONIntegrity
    report           \* the ValidationReport it returned

reportVars == <<geoJsonData, report>>

VARIABLES
    corrected        \* what createCorrectedGeoJSON(geoJsonData) returned, or that it threw

correctVars == <<corrected>>

VARIABLES
    query,           \* the mun_code given to the crosswalk conversions
    converted,       \* what the conversions returned for it
    codeArgs,        \* the two arrays given to validateCodeAlignment
    codeAlignment    \* the report it returned

crosswalkVars == <<query, converted, codeArgs, codeAlignment>>

\* ------------------------------------------------------------- Map helpers

MapHas(m, k) == \E i \in DOMAIN m : m[i].key = k

\* Map.get: the reference stored under k (only used when MapHas(m, k))
MapGet(m, k) == m[CHOOSE i \in DOMAIN m : m[i].key = k].ref

\* Array.from(map.values())
MapValues(m) == [i \in DOMAIN m |-> m[i].ref]

\* what a holder of an array of references reads through it
Deref(h, arr) == [i \in DOMAIN arr |-> h[arr[i]]]

\* ------------------------------------------------------ AtlasLayerManager

determineVisualizationType(config) ==
    CASE config.id \in {"indice_riesgo", "rezago_social"} -> "choropleth"
      [] config.id \in {"desapariciones", "homicidios", "tomas_clandestinas"} -> "heatmap"
      [] config.id = "capacidad_instalada" -> "markers"
      [] OTHER -> "choropleth"

\* the LayerState object initializeLayers builds for one config entry
NewLayerState(entry) ==
    [id |-> entry.key,
     name |-> entry.name,
     description |-> entry.description,
     isVisible |-> (entry.key = PrimaryLayer),
     isLoading |-> FALSE,
     hasData |-> FALSE,
     visualizationType |-> determineVisualizationType(entry),
     config |-> entry.id,
     dataCount |-> Undefined,
     lastUpdated |-> NoDate]

\* initializeLayers: one object per config entry, stored under the entry's key
initializeLayers ==
    [heap |-> [r \in DOMAIN ATLAS_LAYERS |-> NewLayerState(ATLAS_LAYERS[r])],
     layers |-> [r \in DOMAIN ATLAS_LAYERS |-> [key |-> ATLAS_LAYERS[r].key, ref |-> r]]]

\* getLayers: a new array holding the Map's values (references)
getLayers(m) == MapValues(m)

\* getStatistics, the counts over getLayers()
getStatistics(h, m) ==
    LET ls == Deref(h, getLayers(m))
        count(P(_)) == Cardinality({ i \in DOMAIN ls : P(ls[i]) })
        isVis(l) == l.isVisible
        hasD(l) == l.hasData
        isLoad(l) == l.isLoading
    IN  [total |-> Len(ls),
         visible |-> count(isVis),
         withData |-> count(hasD),
         loading |-> count(isLoad)]

\* --------------------------------------------------- listeners (a JS Set)

\* the slot of a deleted entry while Set.prototype.forEach is iterating
Empty == 0

SetHas(entries, l) == \E i \in DOMAIN entries : entries[i] = l

\* Set.add: appends unless present
SetAdd(entries, l) == IF SetHas(entries, l) THEN entries ELSE Append(entries, l)

\* Set.delete while an iteration is in progress: the slot is emptied, the
\* positions of the other entries stay
SetDeleteInPlace(entries, l) == [i \in DOMAIN entries |-> IF entries[i] = l THEN Empty ELSE entries[i]]

\* the entries of the Set, in insertion order
Compact(entries) == SelectSeq(entries, LAMBDA e : e # Empty)

\* Set.delete outside any iteration
SetDelete(entries, l) == Compact(SetDeleteInPlace(entries, l))

\* what the body of listener l does to the registry when it is invoked:
\* nothing, a call of the unsubscribe closure of a listener (Set.delete, which
\* does nothing when that listener is not registered), or a subscribe of a
\* listener
runBody(l, st, bd) ==
    CASE bd[l][1] = "unsubscribe" -> [st EXCEPT !.entries = SetDeleteInPlace(@, bd[l][2])]
      [] bd[l][1] = "subscribe" -> [st EXCEPT !.entries = SetAdd(@, bd[l][2])]
      [] OTHER -> st

\* this.listeners.forEach(listener => listener(layers)): visits the entries by
\* position; an entry deleted before its turn is skipped, an entry added
\* during the iteration is visited
RECURSIVE forEachListener(_, _, _, _, _)
forEachListener(st, i, arg, seen, bd) ==
    IF i > Len(st.entries) THEN st
    ELSE IF st.entries[i] = Empty THEN forEachListener(st, i + 1, arg, seen, bd)
    ELSE LET l == st.entries[i]
             called == [st EXCEPT !.calls = Append(@, [listener |-> l, layers |-> arg, seen |-> seen])]
         IN  forEachListener(runBody(l, called, bd), i + 1, arg, seen, bd)

\* a variant of notifyListeners that walks the listeners last to first
notifyListeners_reversed(h, m, ls, bd) ==
    LET arg == getLayers(m)
        rev == [i \in DOMAIN ls |-> ls[Len(ls) + 1 - i]]
        st == forEachListener([entries |-> rev, calls |-> <<>>], 1, arg, Deref(h, arg), bd)
    IN  [listeners |-> ls, calls |-> st.calls]

\* notifyListeners: takes the snapshot array, then invokes the listeners with it
notifyListeners(h, m, ls, bd) ==
    LET arg == getLayers(m)
        st == forEachListener([entries |-> ls, calls |-> <<>>], 1, arg, Deref(h, arg), bd)
    IN  [listeners |-> Compact(st.entries), calls |-> st.calls]

\* an operation that ends in this.notifyListeners(), the heap being h by then
Broadcast(h) ==
    LET n == notifyListeners(h, layers, listeners, body)
    IN  /\ listeners' = n.listeners
        /\ calls' = n.calls

\* an operation that returns without notifying
NoBroadcast ==
    /\ calls' = <<>>
    /\ UNCHANGED listeners

\* ------------------------------------------------------------- operations

\* a variant of toggleLayerCall that shows the layer instead of flipping it
toggleLayerCall_alwaysShows(h, m, id) ==
    IF ~MapHas(m, id)
    THEN [heap |-> h, notify |-> FALSE, ret |-> FALSE]
    ELSE [heap |-> [h EXCEPT ![MapGet(m, id)].isVisible = TRUE], notify |-> TRUE, ret |-> TRUE]

\* one call of toggleLayer(id) on the heap h: the heap after it, whether it
\* reaches notifyListeners, and what it returns
toggleLayerCall(h, m, id) ==
    IF ~MapHas(m, id)
    THEN [heap |-> h, notify |-> FALSE, ret |-> FALSE]
    ELSE LET r == MapGet(m, id)
             h2 == [h EXCEPT ![r].isVisible = ~@]
         IN  [heap |-> h2, notify |-> TRUE, ret |-> h2[r].isVisible]

toggleLayer(id) ==
    /\ LET c == toggleLayerCall(heap, layers, id)
       IN  /\ heap' = c.heap
           /\ IF c.notify THEN Broadcast(c.heap) ELSE NoBroadcast
           /\ lastOp' = [op |-> "toggleLayer", id |-> id, ret |-> c.ret]
    /\ UNCHANGED <<layers, body, held, joinVars, mapVars, reportVars, correctVars, crosswalkVars>>

\* a variant of setLayerVisibility without the `isVisible !== visible` test
setLayerVisibility_alwaysNotifies(id, visible) ==
    /\ IF ~MapHas(layers, id)
       THEN /\ heap' = heap
            /\ NoBroadcast
            /\ lastOp' = [op |-> "setLayerVisibility", id |-> id, visible |-> visible, ret |-> FALSE]
       ELSE LET h2 == [heap EXCEPT ![MapGet(layers, id)].isVisible = visible]
            IN  /\ heap' = h2
                /\ Broadcast(h2)
                /\ lastOp' = [op |-> "setLayerVisibility", id |-> id, visible |-> visible, ret |-> TRUE]
    /\ UNCHANGED <<layers, body, held, joinVars, mapVars, reportVars, correctVars, crosswalkVars>>

\* a variant of setLayerVisibility that forgets this.notifyListeners()
setLayerVisibility_neverNotifies(id, visible) ==
    /\ IF ~MapHas(layers, id)
       THEN /\ heap' = heap
            /\ lastOp' = [op |-> "setLayerVisibility", id |-> id, visible |-> visible, ret |-> FALSE]
       ELSE /\ heap' = [heap EXCEPT ![MapGet(layers, id)].isVisible = visible]
            /\ lastOp' = [op |-> "setLayerVisibility", id |-> id, visible |-> visible, ret |-> TRUE]
    /\ NoBroadcast
    /\ UNCHANGED <<layers, body, held, joinVars, mapVars, reportVars, correctVars, crosswalkVars>>

setLayerVisibility(id, visible) ==
    /\ IF ~MapHas(layers, id)
       THEN /\ heap' = heap
            /\ NoBroadcast
            /\ lastOp' = [op |-> "setLayerVisibility", id |-> id, visible |-> visible, ret |-> FALSE]
       ELSE LET r == MapGet(layers, id)
            IN  /\ IF heap[r].isVisible # visible
                   THEN LET h2 == [heap EXCEPT ![r].isVisible = visible]
                        IN  heap' = h2 /\ Broadcast(h2)
                   ELSE heap' = heap /\ NoBroadcast
                /\ lastOp' = [op |-> "setLayerVisibility", id |-> id, visible |-> visible, ret |-> TRUE]
    /\ UNCHANGED <<layers, body, held, joinVars, mapVars, reportVars, correctVars, crosswalkVars>>

setLayerLoading(id, loading) ==
    /\ IF ~MapHas(layers, id)
       THEN heap' = heap /\ NoBroadcast
       ELSE LET h2 == [heap EXCEPT ![MapGet(layers, id)].isLoading = loading]
            IN  heap' = h2 /\ Broadcast(h2)
    /\ lastOp' = [op |-> "setLayerLoading", id |-> id]
    /\ UNCHANGED <<layers, body, held, joinVars, mapVars, reportVars, correctVars, crosswalkVars>>

\* dataCount is Undefined when the caller omits it; date is what new Date() gives
setLayerData(id, hasData, dataCount, date) ==
    /\ IF ~MapHas(layers, id)
       THEN heap' = heap /\ NoBroadcast
       ELSE LET h2 == [heap EXCEPT ![MapGet(layers, id)] =
                          [@ EXCEPT !.hasData = hasData, !.dataCount = dataCount, !.lastUpdated = date]]
            IN  heap' = h2 /\ Broadcast(h2)
    /\ lastOp' = [op |-> "setLayerData", id |-> id, dataCount |-> dataCount]
    /\ UNCHANGED <<layers, body, held, joinVars, mapVars, reportVars, correctVars, crosswalkVars>>

\* a variant of showOnlyHeap that shows the layer and leaves the others alone
showOnlyHeap_keepsOthers(h, m, id) ==
    IF MapHas(m, id) THEN [h EXCEPT ![MapGet(m, id)].isVisible = TRUE] ELSE h

\* this.layers.forEach((layer, layerId) => { layer.isVisible = layerId === id })
showOnlyHeap(h, m, id) ==
    [r \in DOMAIN h |->
        IF \E i \in DOMAIN m : m[i].ref = r
        THEN [h[r] EXCEPT !.isVisible = \E i \in DOMAIN m : m[i].ref = r /\ m[i].key = id]
        ELSE h[r]]

showOnlyLayer(id) ==
    /\ LET h2 == showOnlyHeap(heap, layers, id)
       IN  heap' = h2 /\ Broadcast(h2)
    /\ lastOp' = [op |-> "showOnlyLayer", id |-> id]
    /\ UNCHANGED <<layers, body, held, joinVars, mapVars, reportVars, correctVars, crosswalkVars>>

\* a hideAll that also marks every layer as loading
hideAllHeap_marksLoading(h, m) ==
    [r \in DOMAIN h |->
        IF \E i \in DOMAIN m : m[i].ref = r
        THEN [h[r] EXCEPT !.isVisible = FALSE, !.isLoading = TRUE]
        ELSE h[r]]

\* this.layers.forEach(layer => { layer.isVisible = false })
hideAllHeap(h, m) ==
    [r \in DOMAIN h |->
        IF \E i \in DOMAIN m : m[i].ref = r THEN [h[r] EXCEPT !.isVisible = FALSE] ELSE h[r]]

hideAllLayers ==
    /\ LET h2 == hideAllHeap(heap, layers)
       IN  heap' = h2 /\ Broadcast(h2)
    /\ lastOp' = [op |-> "hideAllLayers"]
    /\ UNCHANGED <<layers, body, held, joinVars, mapVars, reportVars, correctVars, crosswalkVars>>

\* a variant of resetHeap that leaves dataCount and lastUpdated set
resetHeap_keepsCount(h, m) ==
    [r \in DOMAIN h |->
        [h[r] EXCEPT !.isVisible = (h[r].id = PrimaryLayer), !.isLoading = FALSE, !.hasData = FALSE]]

\* the loop of reset()
resetHeap(h, m) ==
    [r \in DOMAIN h |->
        IF \E i \in DOMAIN m : m[i].ref = r
        THEN [h[r] EXCEPT !.isVisible = (h[r].id = PrimaryLayer),
                          !.isLoading = FALSE,
                          !.hasData = FALSE,
                          !.dataCount = Undefined,
                          !.lastUpdated = NoDate]
        ELSE h[r]]

\* a variant of reset that rebuilds the Map with the primary layer alone
reset_dropsLayers ==
    /\ LET h2 == resetHeap(heap, layers)
       IN  heap' = h2 /\ calls' = <<>> /\ UNCHANGED listeners
    /\ layers' = SelectSeq(layers, LAMBDA e : e.key = PrimaryLayer)
    /\ lastOp' = [op |-> "reset"]
    /\ UNCHANGED <<body, held, joinVars, mapVars, reportVars, correctVars, crosswalkVars>>

reset ==
    /\ LET h2 == resetHeap(heap, layers)
       IN  heap' = h2 /\ Broadcast(h2)
    /\ lastOp' = [op |-> "reset"]
    /\ UNCHANGED <<layers, body, held, joinVars, mapVars, reportVars, correctVars, crosswalkVars>>

\* subscribe(listener), called outside any broadcast
subscribe(l) ==
    /\ listeners' = SetAdd(listeners, l)
    /\ calls' = <<>>
    /\ lastOp' = [op |-> "subscribe", listener |-> l]
    /\ UNCHANGED <<heap, layers, body, held, joinVars, mapVars, reportVars, correctVars, crosswalkVars>>

\* a call of the closure subscribe(l) returned, outside any broadcast
\* (Set.delete; it changes nothing when l is not registered)
unsubscribe(l) ==
    /\ listeners' = SetDelete(listeners, l)
    /\ calls' = <<>>
    /\ lastOp' = [op |-> "unsubscribe", listener |-> l]
    /\ UNCHANGED <<heap, layers, body, held, joinVars, mapVars, reportVars, correctVars, crosswalkVars>>

\* a caller obtains getLayers() and keeps the array
keepLayers ==
    /\ held' = getLayers(layers)
    /\ calls' = <<>>
    /\ lastOp' = [op |-> "getLayers"]
    /\ UNCHANGED <<heap, layers, listeners, body, joinVars, mapVars, reportVars, correctVars, crosswalkVars>>

\* the state after `new AtlasLayerManager()`
StoreInit ==
    /\ heap = initializeLayers.heap
    /\ layers = initializeLayers.layers
    /\ listeners = <<>>
    /\ calls = <<>>
    /\ lastOp = [op |-> "constructor"]
    /\ held = <<>>

\* the dataCount arguments: omitted, or a count
DataCounts == {Undefined} \cup 0..MaxCount

StoreNext ==
    \/ \E id \in OpIds : toggleLayer(id)
    \/ \E id \in OpIds, v \in BOOLEAN : setLayerVisibility(id, v)
    \/ \E id \in DataIds, b \in BOOLEAN : setLayerLoading(id, b)
    \/ \E id \in DataIds, h \in BOOLEAN, n \in DataCounts, d \in Dates : setLayerData(id, h, n, d)
    \/ \E id \in OpIds : showOnlyLayer(id)
    \/ hideAllLayers
    \/ reset
    \/ \E l \in Listeners : subscribe(l)
    \/ \E l \in Listeners : unsubscribe(l)

\* ------------------------------------------------------------ Join Engine

\* what reading a property that an object does not have yields
Absent == "undefined"

\* the municipality codes that occur in the inputs
Codes == {"11001", "11002"}

\* the code properties a geometry feature may carry: the default one and
\* one a caller may name in options.geoCodeField
GeoFields == {"cvegeo", "clave"}

\* the code fields a data record may carry: the default one and one a
\* caller may name in options.dataCodeField
DataFields == {"municipio", "cve_mun"}

\* lookup.get(code) when the Map has no such key; records are referred to by
\* their position in dataFile.records
NoRecord == 0

\* the sequences over S of length at most n
SeqsUpTo(S, n) == UNION { [1..k -> S] : k \in 0..n }

\* const { geoCodeField = 'cvegeo', dataCodeField = 'municipio',
\*         dataSourceName = 'Unknown' } = options
WithDefaults(o) ==
    [geoCodeField |-> IF o.geoCodeField = Absent THEN "cvegeo" ELSE o.geoCodeField,
     dataCodeField |-> IF o.dataCodeField = Absent THEN "municipio" ELSE o.dataCodeField,
     dataSourceName |-> IF o.dataSourceName = Absent THEN "Unknown" ELSE o.dataSourceName]

\* a lookup in which the first record of a code is kept
RECURSIVE createMunicipalityLookup_firstWins(_, _, _)
createMunicipalityLookup_firstWins(records, i, lookup) ==
    IF i > Len(records) THEN lookup
    ELSE createMunicipalityLookup_firstWins(records, i + 1,
            [k \in DOMAIN lookup \cup {records[i].municipio} |->
                IF k \in DOMAIN lookup THEN lookup[k] ELSE i])

\* createMunicipalityLookup: a Map keyed by record.municipio; a later
\* lookup.set on the same key replaces the earlier value
RECURSIVE createMunicipalityLookup(_, _, _)
createMunicipalityLookup(records, i, lookup) ==
    IF i > Len(records) THEN lookup
    ELSE createMunicipalityLookup(records, i + 1,
            [k \in DOMAIN lookup \cup {records[i].municipio} |->
                IF k = records[i].municipio THEN i ELSE lookup[k]])

\* Map.get on the lookup
LookupGet(lookup, code) == IF code \in DOMAIN lookup THEN lookup[code] ELSE NoRecord

\* an array taken as it is, repeated elements included
SetFromArray_keepsDuplicates(arr, i, acc) == arr

\* new Set(array): the distinct elements in order of first occurrence
RECURSIVE SetFromArray(_, _, _)
SetFromArray(arr, i, acc) ==
    IF i > Len(arr) THEN acc ELSE SetFromArray(arr, i + 1, SetAdd(acc, arr[i]))

\* Math.max
Max(a, b) == IF a >= b THEN a ELSE b

\* validateMunicipalityAlignment; the ratio matching.size / Math.max(...) is
\* kept as numerator and denominator
validateMunicipalityAlignment(geoMunicipalityCodes, dataMunicipalityCodes) ==
    [matching |-> SelectSeq(dataMunicipalityCodes, LAMBDA c : SetHas(geoMunicipalityCodes, c)),
     missingInGeo |-> SelectSeq(dataMunicipalityCodes, LAMBDA c : ~SetHas(geoMunicipalityCodes, c)),
     missingInData |-> SelectSeq(geoMunicipalityCodes, LAMBDA c : ~SetHas(dataMunicipalityCodes, c)),
     alignmentRatio |->
        [num |-> Len(SelectSeq(dataMunicipalityCodes, LAMBDA c : SetHas(geoMunicipalityCodes, c))),
         den |-> Max(Len(geoMunicipalityCodes), Len(dataMunicipalityCodes))]]

\* a || b for strings: a unless it is undefined (or empty)
OrElse(a, b) == IF a = Absent \/ a = "" THEN b ELSE a

\* a join that keeps only the features for which a record was found
joinDataWithGeometries_dropsUnmatched(features, records, o) ==
    LET dataLookup == createMunicipalityLookup(records, 1, <<>>)
        kept == SelectSeq(features, LAMBDA f : LookupGet(dataLookup, f.cvegeo) # NoRecord)
        enhancedFeatures ==
            [i \in DOMAIN kept |->
                [cvegeo |-> kept[i].cvegeo, clave |-> kept[i].clave,
                 data |-> LookupGet(dataLookup, kept[i].cvegeo), hasData |-> TRUE,
                 dataSource |-> WithDefaults(o).dataSourceName]]
        alignment == validateMunicipalityAlignment(<<>>, <<>>)
    IN  [called |-> TRUE,
         features |-> enhancedFeatures,
         metadata |->
            [totalFeatures |-> Len(enhancedFeatures),
             featuresWithData |-> Len(enhancedFeatures),
             dataAlignment |-> alignment.alignmentRatio,
             missingDataCodes |-> alignment.missingInData,
             dataSource |-> WithDefaults(o).dataSourceName],
         alignment |-> alignment]

\* joinDataWithGeometries(geoJson, dataFile, options)
joinDataWithGeometries(features, records, o) ==
    LET opt == WithDefaults(o)
        dataLookup == createMunicipalityLookup(records, 1, <<>>)
        geoCodes == SetFromArray([i \in DOMAIN features |-> features[i][opt.geoCodeField]], 1, <<>>)
        dataCodes == SetFromArray([i \in DOMAIN records |-> records[i][opt.dataCodeField]], 1, <<>>)
        alignment == validateMunicipalityAlignment(geoCodes, dataCodes)
        enhancedFeatures ==
            [i \in DOMAIN features |->
                LET municipalityCode == features[i][opt.geoCodeField]
                    data == LookupGet(dataLookup, municipalityCode)
                IN  [cvegeo |-> OrElse(features[i].cvegeo, OrElse(municipalityCode, "unknown")),
                     clave |-> features[i].clave,
                     data |-> data,
                     hasData |-> (data # NoRecord),
                     dataSource |-> opt.dataSourceName]]
    IN  [called |-> TRUE,
         features |-> enhancedFeatures,
         metadata |->
            [totalFeatures |-> Len(enhancedFeatures),
             featuresWithData |-> Cardinality({ i \in DOMAIN enhancedFeatures : enhancedFeatures[i].hasData }),
             dataAlignment |-> alignment.alignmentRatio,
             missingDataCodes |-> alignment.missingInData,
             dataSource |-> opt.dataSourceName],
         \* the local the call computes and writes to the console
         alignment |-> alignment]

\* one call of joinDataWithGeometries on the inputs
join ==
    /\ ~joined.called
    /\ joined' = joinDataWithGeometries(geoJson, dataFile, options)
    /\ UNCHANGED <<geoJson, dataFile, options, storeVars, mapVars, reportVars, correctVars, crosswalkVars>>

\* no join is under way
JoinIdle ==
    /\ geoJson = <<>>
    /\ dataFile = <<>>
    /\ options = [geoCodeField |-> Absent, dataCodeField |-> Absent, dataSourceName |-> Absent]
    /\ joined = [called |-> FALSE]

\* the inputs of a join that relies on the default code fields
JoinInputsDefault ==
    /\ geoJson \in SeqsUpTo([cvegeo : Codes \cup {Absent}, clave : {Absent}], MaxFeatures)
    /\ dataFile \in SeqsUpTo([municipio : Codes, cve_mun : {Absent}], MaxRecords)
    /\ options \in [geoCodeField : {Absent}, dataCodeField : {Absent}, dataSourceName : {Absent, "desapariciones"}]
    /\ joined = [called |-> FALSE]

\* the inputs of a join whose caller may name the code fields
JoinInputsAny ==
    /\ geoJson \in SeqsUpTo([cvegeo : Codes \cup {Absent}, clave : Codes \cup {Absent}], MaxFeatures)
    /\ dataFile \in SeqsUpTo([municipio : Codes, cve_mun : Codes \cup {Absent}], MaxRecords)
    /\ options \in [geoCodeField : {Absent, "clave"}, dataCodeField : {Absent, "cve_mun"}, dataSourceName : {Absent}]
    /\ joined = [called |-> FALSE]

\* ---------------------------------------------------------- Classification

\* the codes of the features handed to the classification, by position
MunicipalityCodes == <<"11001", "11002", "11003", "11004", "11005", "11006", "11007">>

\* a code that no feature has
UnknownCode == "99999"

\* the numbers valueExtractor returns for the records
Values == {-2, -1, 0, 1}

\* the colours a caller passes, low to high
Palette == <<"#ffffb2", "#fecc5c", "#fd8d3c", "#f03b20", "#bd0026">>

\* the colorScale arguments: the first 1, 3 or 5 colours of the palette
ColorScales == { SubSeq(Palette, 1, k) : k \in {1, 3, 5} }

\* options.method; any value other than 'quintiles' takes the equal-interval branch
Methods == {"quintiles", "equal-interval"}

\* const { method = 'quintiles', noDataColor = '#cccccc', missingDataValue = 0 } = options
MapDefaults(o) ==
    [method |-> IF o.method = Absent THEN "quintiles" ELSE o.method,
     noDataColor |-> "#cccccc",
     missingDataValue |-> 0]

\* a JavaScript number as a fraction; the integer n
Num(n) == [num |-> n, den |-> 1]

\* value >= b for a fraction b; a comparison with NaN (den = 0) is false
GE(value, b) == b.den > 0 /\ value * b.den >= b.num

\* a || b for numbers: a unless it is 0
OrElseNum(a, b) == IF a = 0 THEN b ELSE a

\* the values pushed for the features that have data, in feature order
ExtractValues(features) ==
    LET withData == SelectSeq(features, LAMBDA f : f.hasData)
    IN  [i \in DOMAIN withData |-> withData[i].value]

\* valueMap after the forEach: the last feature of a code decides its entry
BuildValueMap(features, missingDataValue) ==
    [c \in { features[i].cvegeo : i \in DOMAIN features } |->
        LET last == CHOOSE i \in DOMAIN features :
                        /\ features[i].cvegeo = c
                        /\ \A j \in DOMAIN features : features[j].cvegeo = c => j <= i
        IN  IF features[last].hasData THEN features[last].value ELSE missingDataValue]

\* the smallest and the largest element of a non-empty array
MinOf(values) == CHOOSE v \in { values[i] : i \in DOMAIN values } : \A i \in DOMAIN values : v <= values[i]
MaxOf(values) == CHOOSE v \in { values[i] : i \in DOMAIN values } : \A i \in DOMAIN values : v >= values[i]

\* quintile breaks that repeat the minimum and start the quintiles one place later
quintileBreaks_minimumTwice(values) ==
    LET sorted == SortSeq(values, LAMBDA a, b : a < b)
        quintileSize == Len(sorted) \div 5
    IN  << Num(sorted[1]),
           Num(sorted[1]),
           Num(OrElseNum(sorted[quintileSize + 1], sorted[1])),
           Num(OrElseNum(sorted[quintileSize * 2 + 1], sorted[1])),
           Num(OrElseNum(sorted[quintileSize * 3 + 1], sorted[1])),
           Num(sorted[Len(sorted)]) >>

\* the breaks of the 'quintiles' method (indices are 0-based in the source)
quintileBreaks(values) ==
    LET sorted == SortSeq(values, LAMBDA a, b : a < b)
        quintileSize == Len(sorted) \div 5
    IN  << Num(sorted[1]),
           Num(OrElseNum(sorted[quintileSize + 1], sorted[1])),
           Num(OrElseNum(sorted[quintileSize * 2 + 1], sorted[1])),
           Num(OrElseNum(sorted[quintileSize * 3 + 1], sorted[1])),
           Num(OrElseNum(sorted[quintileSize * 4 + 1], sorted[1])),
           Num(sorted[Len(sorted)]) >>

\* the breaks of the equal-interval branch: min + interval * i with
\* interval = (max - min) / (colorScale.length - 1), kept as fractions over
\* colorScale.length - 1; with one colour the interval is a division by zero
\* and the only break is NaN
equalIntervalBreaks(values, nColors) ==
    LET min == MinOf(values)
        max == MaxOf(values)
        den == nColors - 1
    IN  [k \in 1..nColors |->
            IF den = 0 THEN [num |-> 0, den |-> 0]
            ELSE [num |-> min * den + (max - min) * (k - 1), den |-> den]]

\* createChoroplethMapping(enhancedGeoJson, valueExtractor, colorScale, options):
\* what the returned function captured. With no extracted value it is the
\* constant function (no breaks are computed).
createChoroplethMapping(features, colors, o) ==
    LET opt == MapDefaults(o)
        values == ExtractValues(features)
    IN  [called |-> TRUE,
         constant |-> (Len(values) = 0),
         values |-> values,
         valueMap |-> BuildValueMap(features, opt.missingDataValue),
         breaks |->
            IF Len(values) = 0 THEN <<>>
            ELSE IF opt.method = "quintiles" THEN quintileBreaks(values)
            ELSE equalIntervalBreaks(values, Len(colors)),
         colorScale |-> colors,
         noDataColor |-> opt.noDataColor,
         missingDataValue |-> opt.missingDataValue]

\* Math.min
Min(a, b) == IF a <= b THEN a ELSE b

\* the loop of the returned function: the highest i (1-based) from `from`
\* down with value >= breaks[i], or 0 when there is none
RECURSIVE scanBreaks(_, _, _)
scanBreaks(value, breaks, from) ==
    IF from < 1 THEN 0
    ELSE IF GE(value, breaks[from]) THEN from
    ELSE scanBreaks(value, breaks, from - 1)

\* the colour the loop returns for a value: colorScale[Math.min(i, length - 1)],
\* or colorScale[0] after a loop that found no break
colorForValue(value, breaks, colors) ==
    LET i == scanBreaks(value, breaks, Len(breaks))
    IN  IF i = 0 THEN colors[1] ELSE colors[Min(i, Len(colors))]

\* a returned function that does not test for the missing-data value
getColorCall_binsMissing(fn, municipalityCode) ==
    IF fn.constant THEN fn.noDataColor
    ELSE IF municipalityCode \notin DOMAIN fn.valueMap THEN fn.noDataColor
    ELSE colorForValue(fn.valueMap[municipalityCode], fn.breaks, fn.colorScale)

\* a call of the returned function
getColorCall(fn, municipalityCode) ==
    IF fn.constant THEN fn.noDataColor
    ELSE IF municipalityCode \notin DOMAIN fn.valueMap THEN fn.noDataColor
    ELSE IF fn.valueMap[municipalityCode] = fn.missingDataValue THEN fn.noDataColor
    ELSE colorForValue(fn.valueMap[municipalityCode], fn.breaks, fn.colorScale)

\* one call of createChoroplethMapping on the inputs
createMapping ==
    /\ ~getColor.called
    /\ getColor' = createChoroplethMapping(enhancedGeoJson, colorScale, mapOptions)
    /\ UNCHANGED <<enhancedGeoJson, colorScale, mapOptions, storeVars, joinVars, reportVars, correctVars, crosswalkVars>>

\* no classification is under way
MapIdle ==
    /\ enhancedGeoJson = <<>>
    /\ colorScale = Palette
    /\ mapOptions = [method |-> Absent]
    /\ getColor = [called |-> FALSE]

\* a feature of a joined collection: either without data, or with a record
\* from which valueExtractor reads `value`
Cells == {[hasData |-> FALSE, value |-> 0]} \cup [hasData : {TRUE}, value : Values]

\* the joined collection whose i-th feature has the i-th code and the i-th cell
FeaturesOf(cells) ==
    [i \in DOMAIN cells |->
        [cvegeo |-> MunicipalityCodes[i], hasData |-> cells[i].hasData, value |-> cells[i].value]]

\* Scenario C: five features whose values are 10, 20, 30, 40 and 50
ScenarioC == FeaturesOf([i \in 1..5 |-> [hasData |-> TRUE, value |-> 10 * i]])

\* the inputs of a classification
MapInputs ==
    /\ \/ \E k \in 0..MaxMapped : \E cells \in [1..k -> Cells] : enhancedGeoJson = FeaturesOf(cells)
       \/ enhancedGeoJson = ScenarioC
    /\ colorScale \in ColorScales
    /\ mapOptions \in [method : Methods]
    /\ getColor = [called |-> FALSE]

\* -------------------------------------------------------- GeoJSON Validator

\* the official catalog
INEGI_GUANAJUATO_MUNICIPALITIES ==
    << [clave |-> "11001", nombre |-> "Abasolo"],
       [clave |-> "11002", nombre |-> "Acámbaro"],
       [clave |-> "11003", nombre |-> "San Miguel de Allende"],
       [clave |-> "11004", nombre |-> "Apaseo el Alto"],
       [clave |-> "11005", nombre |-> "Apaseo el Grande"],
       [clave |-> "11006", nombre |-> "Atarjea"],
       [clave |-> "11007", nombre |-> "Celaya"],
       [clave |-> "11008", nombre |-> "Manuel Doblado"],
       [clave |-> "11009", nombre |-> "Comonfort"],
       [clave |-> "11010", nombre |-> "Coroneo"],
       [clave |-> "11011", nombre |-> "Cortazar"],
       [clave |-> "11012", nombre |-> "Cuerámaro"],
       [clave |-> "11013", nombre |-> "Doctor Mora"],
       [clave |-> "11014", nombre |-> "Dolores Hidalgo Cuna de la Independencia Nacional"],
       [clave |-> "11015", nombre |-> "Guanajuato"],
       [clave |-> "11016", nombre |-> "Huanímaro"],
       [clave |-> "11017", nombre |-> "Irapuato"],
       [clave |-> "11018", nombre |-> "Jaral del Progreso"],
       [clave |-> "11019", nombre |-> "Jerécuaro"],
       [clave |-> "11020", nombre |-> "León"],
       [clave |-> "11021", nombre |-> "Moroleón"],
       [clave |-> "11022", nombre |-> "Ocampo"],
       [clave |-> "11023", nombre |-> "Pénjamo"],
       [clave |-> "11024", nombre |-> "Pueblo Nuevo"],
       [clave |-> "11025", nombre |-> "Purísima del Rincón"],
       [clave |-> "11026", nombre |-> "Romita"],
       [clave |-> "11027", nombre |-> "Salamanca"],
       [clave |-> "11028", nombre |-> "Salvatierra"],
       [clave |-> "11029", nombre |-> "San Diego de la Unión"],
       [clave |-> "11030", nombre |-> "San Felipe"],
       [clave |-> "11031", nombre |-> "San Francisco del Rincón"],
       [clave |-> "11032", nombre |-> "San José Iturbide"],
       [clave |-> "11033", nombre |-> "San Luis de la Paz"],
       [clave |-> "11034", nombre |-> "Santa Catarina"],
       [clave |-> "11035", nombre |-> "Santa Cruz de Juventino Rosas"],
       [clave |-> "11036", nombre |-> "Santiago Maravatío"],
       [clave |-> "11037", nombre |-> "Silao de la Victoria"],
       [clave |-> "11038", nombre |-> "Tarandacuao"],
       [clave |-> "11039", nombre |-> "Tarimoro"],
       [clave |-> "11040", nombre |-> "Tierra Blanca"],
       [clave |-> "11041", nombre |-> "Uriangato"],
       [clave |-> "11042", nombre |-> "Valle de Santiago"],
       [clave |-> "11043", nombre |-> "Victoria"],
       [clave |-> "11044", nombre |-> "Villagrán"],
       [clave |-> "11045", nombre |-> "Xichú"],
       [clave |-> "11046", nombre |-> "Yuriria"] >>
\* String.prototype.toLowerCase on the names that occur: those of the catalog
\* and those of the features
LowerCaseOf ==
    "Abasolo" :> "abasolo" @@
    "Acámbaro" :> "acámbaro" @@
    "San Miguel de Allende" :> "san miguel de allende" @@
    "Apaseo el Alto" :> "apaseo el alto" @@
    "Apaseo el Grande" :> "apaseo el grande" @@
    "Atarjea" :> "atarjea" @@
    "Celaya" :> "celaya" @@
    "Manuel Doblado" :> "manuel doblado" @@
    "Comonfort" :> "comonfort" @@
    "Coroneo" :> "coroneo" @@
    "Cortazar" :> "cortazar" @@
    "Cuerámaro" :> "cuerámaro" @@
    "Doctor Mora" :> "doctor mora" @@
    "Dolores Hidalgo Cuna de la Independencia Nacional" :> "dolores hidalgo cuna de la independencia nacional" @@
    "Guanajuato" :> "guanajuato" @@
    "Huanímaro" :> "huanímaro" @@
    "Irapuato" :> "irapuato" @@
    "Jaral del Progreso" :> "jaral del progreso" @@
    "Jerécuaro" :> "jerécuaro" @@
    "León" :> "león" @@
    "Moroleón" :> "moroleón" @@
    "Ocampo" :> "ocampo" @@
    "Pénjamo" :> "pénjamo" @@
    "Pueblo Nuevo" :> "pueblo nuevo" @@
    "Purísima del Rincón" :> "purísima del rincón" @@
    "Romita" :> "romita" @@
    "Salamanca" :> "salamanca" @@
    "Salvatierra" :> "salvatierra" @@
    "San Diego de la Unión" :> "san diego de la unión" @@
    "San Felipe" :> "san felipe" @@
    "San Francisco del Rincón" :> "san francisco del rincón" @@
    "San José Iturbide" :> "san josé iturbide" @@
    "San Luis de la Paz" :> "san luis de la paz" @@
    "Santa Catarina" :> "santa catarina" @@
    "Santa Cruz de Juventino Rosas" :> "santa cruz de juventino rosas" @@
    "Santiago Maravatío" :> "santiago maravatío" @@
    "Silao de la Victoria" :> "silao de la victoria" @@
    "Tarandacuao" :> "tarandacuao" @@
    "Tarimoro" :> "tarimoro" @@
    "Tierra Blanca" :> "tierra blanca" @@
    "Uriangato" :> "uriangato" @@
    "Valle de Santiago" :> "valle de santiago" @@
    "Victoria" :> "victoria" @@
    "Villagrán" :> "villagrán" @@
    "Xichú" :> "xichú" @@
    "Yuriria" :> "yuriria" @@
    "LEÓN" :> "león" @@
    "Leon" :> "leon" @@
    "" :> ""

toLowerCase(name) == LowerCaseOf[name]

\* Number.prototype.toString for a natural number
RECURSIVE toString(_)
toString(n) ==
    IF n < 10 THEN <<"0", "1", "2", "3", "4", "5", "6", "7", "8", "9">>[n + 1]
    ELSE toString(n \div 10) \o toString(n % 10)

\* String.prototype.padStart(targetLength, '0')
RECURSIVE padStart(_, _)
padStart(str, targetLength) ==
    IF Len(str) >= targetLength THEN str ELSE padStart("0" \o str, targetLength)

\* inegiByCode.get(code): the position in the catalog of the entry of that
\* clave (the last one set), 0 when the Map has no such key
inegiByCode(code) ==
    LET hits == { k \in DOMAIN INEGI_GUANAJUATO_MUNICIPALITIES :
                    INEGI_GUANAJUATO_MUNICIPALITIES[k].clave = code }
    IN  IF hits = {} THEN 0 ELSE CHOOSE k \in hits : \A h \in hits : h <= k

\* inegiByName.get(name): the Map is keyed by the lower-cased official names
inegiByName(name) ==
    LET hits == { k \in DOMAIN INEGI_GUANAJUATO_MUNICIPALITIES :
                    toLowerCase(INEGI_GUANAJUATO_MUNICIPALITIES[k].nombre) = name }
    IN  IF hits = {} THEN 0 ELSE CHOOSE k \in hits : \A h \in hits : h <= k

\* a feature's properties are complete: none of the three is falsy
\* (undefined, 0 or the empty string; a number that is not set is modelled as 0)
HasRequired(props) ==
    props.state_code # 0 /\ props.mun_code # 0 /\ props.mun_name # Absent /\ props.mun_name # ""

\* `11${props.mun_code.toString().padStart(3, '0')}`
expectedCode(props) == "11" \o padStart(toString(props.mun_code), 3)

\* the issues step 4 pushes for the feature at (0-based) index
featureIssues(feature, index) ==
    LET props == feature.properties
        code == expectedCode(props)
        inegiByCodeMatch == inegiByCode(code)
        inegiByNameMatch == inegiByName(toLowerCase(props.mun_name))
    IN  IF ~HasRequired(props)
        THEN << [type |-> "missing_properties", severity |-> "error",
                 municipality |-> "Feature " \o toString(index)] >>
        ELSE (IF props.state_code # 11
              THEN << [type |-> "invalid_state_code", severity |-> "error",
                       municipality |-> props.mun_name] >>
              ELSE <<>>)
             \o
             (IF inegiByCodeMatch = 0 /\ inegiByNameMatch = 0
              THEN << [type |-> "missing_municipality", severity |-> "error",
                       municipality |-> props.mun_name] >>
              ELSE IF inegiByCodeMatch # 0 /\ inegiByNameMatch # 0
              THEN <<>>
              ELSE IF inegiByCodeMatch # 0 /\ inegiByNameMatch = 0
              THEN << [type |-> "wrong_name", severity |-> "warning",
                       municipality |-> props.mun_name] >>
              ELSE << [type |-> "wrong_code", severity |-> "error",
                       municipality |-> props.mun_name] >>)
             \o
             (IF ~feature.geometry
              THEN << [type |-> "invalid_geometry", severity |-> "error",
                       municipality |-> props.mun_name] >>
              ELSE <<>>)

\* a forEach that ends at the first feature without the required properties
RECURSIVE forEachFeature_stopsAtIncomplete(_, _)
forEachFeature_stopsAtIncomplete(features, i) ==
    IF i > Len(features) THEN <<>>
    ELSE IF ~HasRequired(features[i].properties) THEN featureIssues(features[i], i - 1)
    ELSE featureIssues(features[i], i - 1) \o forEachFeature_stopsAtIncomplete(features, i + 1)

\* geoJsonData.features.forEach: the issues of the features from position i on
RECURSIVE forEachFeature(_, _)
forEachFeature(features, i) ==
    IF i > Len(features) THEN <<>>
    ELSE featureIssues(features[i], i - 1) \o forEachFeature(features, i + 1)

\* a foundCodes that nothing is added to
foundCodes_none(features) == {}

\* foundCodes and foundNames after step 4
foundCodes(features) ==
    { expectedCode(features[i].properties) :
        i \in { j \in DOMAIN features : HasRequired(features[j].properties) } }
foundNames(features) ==
    { toLowerCase(features[i].properties.mun_name) :
        i \in { j \in DOMAIN features : HasRequired(features[j].properties) } }

\* step 5: a warning for each official municipality found neither by code nor by name
RECURSIVE missingMunicipalities(_, _)
missingMunicipalities(features, k) ==
    IF k > Len(INEGI_GUANAJUATO_MUNICIPALITIES) THEN <<>>
    ELSE LET inegiMun == INEGI_GUANAJUATO_MUNICIPALITIES[k]
         IN  (IF /\ inegiMun.clave \notin foundCodes(features)
                 /\ toLowerCase(inegiMun.nombre) \notin foundNames(features)
              THEN << [type |-> "missing_municipality", severity |-> "warning",
                       municipality |-> inegiMun.nombre] >>
              ELSE <<>>)
             \o missingMunicipalities(features, k + 1)

\* issues.filter(i => i.severity === severity).length
CountSeverity(issues, severity) == Len(SelectSeq(issues, LAMBDA i : i.severity = severity))

\* a summary that counts warnings as errors
makeSummary_warningsAsErrors(issues) ==
    [errors |-> CountSeverity(issues, "error") + CountSeverity(issues, "warning"),
     warnings |-> 0,
     info |-> CountSeverity(issues, "info")]

\* step 6: the summary of an issue list
makeSummary(issues) ==
    [errors |-> CountSeverity(issues, "error"),
     warnings |-> CountSeverity(issues, "warning"),
     info |-> CountSeverity(issues, "info")]

\* validateGeoJSONIntegrity(geoJsonData); a collection without a features
\* array is reported at once
validateGeoJSONIntegrity(data) ==
    IF ~data.hasFeatures
    THEN [called |-> TRUE,
          isValid |-> FALSE,
          totalMunicipalities |-> 0,
          expectedMunicipalities |-> Len(INEGI_GUANAJUATO_MUNICIPALITIES),
          issues |-> << [type |-> "missing_properties", severity |-> "error",
                         municipality |-> Absent] >>,
          summary |-> [errors |-> 1, warnings |-> 0, info |-> 0]]
    ELSE LET issues == forEachFeature(data.features, 1) \o missingMunicipalities(data.features, 1)
             summary == makeSummary(issues)
         IN  [called |-> TRUE,
              isValid |-> (summary.errors = 0),
              totalMunicipalities |-> Len(data.features),
              expectedMunicipalities |-> Len(INEGI_GUANAJUATO_MUNICIPALITIES),
              issues |-> issues,
              summary |-> summary]

\* one call of validateGeoJSONIntegrity on the input
validate ==
    /\ ~report.called
    /\ report' = validateGeoJSONIntegrity(geoJsonData)
    /\ UNCHANGED <<geoJsonData, storeVars, joinVars, mapVars, correctVars, crosswalkVars>>

\* no validation is under way
ReportIdle ==
    /\ geoJsonData = [hasFeatures |-> TRUE, features |-> <<>>]
    /\ report = [called |-> FALSE]

\* the properties of the features: complete ones, with a right or a wrong
\* state code, a code inside (1, 20) or outside (99) the catalog and a name
\* that is official (Abasolo is 11001), official in another case (León is
\* 11020) or not official; and ones that lack one required property
CheckedProperties ==
    [state_code : {11, 12}, mun_code : {1, 20, 99}, mun_name : {"Abasolo", "LEÓN", "Leon"}]
    \cup {[state_code |-> 0, mun_code |-> 1, mun_name |-> "Abasolo"],
          [state_code |-> 11, mun_code |-> 0, mun_name |-> "Abasolo"],
          [state_code |-> 11, mun_code |-> 1, mun_name |-> ""],
          [state_code |-> 11, mun_code |-> 1, mun_name |-> Absent]}

\* the features: geometry is whether the feature has a geometry with
\* coordinates
CheckedFeatures ==
    [properties : CheckedProperties, geometry : {TRUE}]
    \cup [properties : { p \in CheckedProperties : p.state_code = 11 }, geometry : {FALSE}]

\* the inputs of a validation: a collection, or an object without features
ReportInputs ==
    /\ \/ \E features \in SeqsUpTo(CheckedFeatures, MaxChecked) :
              geoJsonData = [hasFeatures |-> TRUE, features |-> features]
       \/ geoJsonData = [hasFeatures |-> FALSE, features |-> <<>>]
    /\ report = [called |-> FALSE]

\* ------------------------------------------------------ GeoJSON Correction

\* String.prototype.slice(start)
slice(str, start) == SubSeq(str, start + 1, Len(str))

\* the value of a decimal digit
DigitValue(ch) ==
    CHOOSE d \in 0..9 : <<"0", "1", "2", "3", "4", "5", "6", "7", "8", "9">>[d + 1] = ch

\* parseInt of a string of decimal digits, read from the left
RECURSIVE parseDigits(_, _)
parseDigits(str, acc) ==
    IF Len(str) = 0 THEN acc
    ELSE parseDigits(slice(str, 1), acc * 10 + DigitValue(SubSeq(str, 1, 1)))
parseInt(str) == parseDigits(str, 0)

\* a correction that leaves the code of a feature found by name as it is
correctFeature_keepsCode(feature) ==
    feature

\* the callback of geoJsonData.features.map: a feature whose lower-cased name
\* is an official one gets the official name and code; any other feature is
\* returned as it is
correctFeature(feature) ==
    LET props == feature.properties
        inegiMatch == inegiByName(toLowerCase(props.mun_name))
    IN  IF inegiMatch # 0
        THEN [properties |->
                [state_code |-> props.state_code,
                 mun_code |-> parseInt(slice(INEGI_GUANAJUATO_MUNICIPALITIES[inegiMatch].clave, 2)),
                 mun_name |-> INEGI_GUANAJUATO_MUNICIPALITIES[inegiMatch].nombre,
                 inegi_code |-> INEGI_GUANAJUATO_MUNICIPALITIES[inegiMatch].clave],
              geometry |-> feature.geometry]
        ELSE feature

\* createCorrectedGeoJSON(geoJsonData); it throws a TypeError when features
\* is not there (undefined.map) and when a feature has no mun_name
\* (undefined.toLowerCase)
createCorrectedGeoJSON(data) ==
    IF \/ ~data.hasFeatures
       \/ \E i \in DOMAIN data.features : data.features[i].properties.mun_name = Absent
    THEN [called |-> TRUE, threw |-> TRUE, features |-> <<>>]
    ELSE [called |-> TRUE, threw |-> FALSE,
          features |-> [i \in DOMAIN data.features |-> correctFeature(data.features[i])]]

\* one call of createCorrectedGeoJSON on the input
correct ==
    /\ ~corrected.called
    /\ corrected' = createCorrectedGeoJSON(geoJsonData)
    /\ UNCHANGED <<reportVars, storeVars, joinVars, mapVars, crosswalkVars>>

\* the validation of the corrected collection
validateCorrected ==
    /\ corrected.called
    /\ ~corrected.threw
    /\ ~report.called
    /\ report' = validateGeoJSONIntegrity([hasFeatures |-> TRUE, features |-> corrected.features])
    /\ UNCHANGED <<geoJsonData, correctVars, storeVars, joinVars, mapVars, crosswalkVars>>

\* no correction is under way
CorrectIdle == corrected = [called |-> FALSE]

\* ---------------------------------------------------------------- Crosswalk

\* the crosswalk table: the values of the object in the order of its keys
GUANAJUATO_MUNICIPALITIES ==
    << [key |-> 1, geoJsonCode |-> 1, dataCode |-> "11001", officialName |-> "Abasolo"],
       [key |-> 2, geoJsonCode |-> 2, dataCode |-> "11002", officialName |-> "Acámbaro"],
       [key |-> 3, geoJsonCode |-> 3, dataCode |-> "11003", officialName |-> "San Miguel de Allende"],
       [key |-> 4, geoJsonCode |-> 4, dataCode |-> "11004", officialName |-> "Apaseo el Alto"],
       [key |-> 5, geoJsonCode |-> 5, dataCode |-> "11005", officialName |-> "Apaseo el Grande"],
       [key |-> 6, geoJsonCode |-> 6, dataCode |-> "11006", officialName |-> "Atarjea"],
       [key |-> 7, geoJsonCode |-> 7, dataCode |-> "11007", officialName |-> "Celaya"],
       [key |-> 8, geoJsonCode |-> 8, dataCode |-> "11008", officialName |-> "Manuel Doblado"],
       [key |-> 9, geoJsonCode |-> 9, dataCode |-> "11009", officialName |-> "Comonfort"],
       [key |-> 10, geoJsonCode |-> 10, dataCode |-> "11010", officialName |-> "Coroneo"],
       [key |-> 11, geoJsonCode |-> 11, dataCode |-> "11011", officialName |-> "Cortazar"],
       [key |-> 12, geoJsonCode |-> 12, dataCode |-> "11012", officialName |-> "Cuerámaro"],
       [key |-> 13, geoJsonCode |-> 13, dataCode |-> "11013", officialName |-> "Doctor Mora"],
       [key |-> 14, geoJsonCode |-> 14, dataCode |-> "11014", officialName |-> "Dolores Hidalgo Cuna de la Independencia Nacional"],
       [key |-> 15, geoJsonCode |-> 15, dataCode |-> "11015", officialName |-> "Guanajuato"],
       [key |-> 16, geoJsonCode |-> 16, dataCode |-> "11016", officialName |-> "Huanímaro"],
       [key |-> 17, geoJsonCode |-> 17, dataCode |-> "11017", officialName |-> "Irapuato"],
       [key |-> 18, geoJsonCode |-> 18, dataCode |-> "11018", officialName |-> "Jaral del Progreso"],
       [key |-> 19, geoJsonCode |-> 19, dataCode |-> "11019", officialName |-> "Jerécuaro"],
       [key |-> 20, geoJsonCode |-> 20, dataCode |-> "11020", officialName |-> "León"],
       [key |-> 21, geoJsonCode |-> 21, dataCode |-> "11021", officialName |-> "Moroleón"],
       [key |-> 22, geoJsonCode |-> 22, dataCode |-> "11022", officialName |-> "Ocampo"],
       [key |-> 23, geoJsonCode |-> 23, dataCode |-> "11023", officialName |-> "Pénjamo"],
       [key |-> 24, geoJsonCode |-> 24, dataCode |-> "11024", officialName |-> "Pueblo Nuevo"],
       [key |-> 25, geoJsonCode |-> 25, dataCode |-> "11025", officialName |-> "Purísima del Rincón"],
       [key |-> 26, geoJsonCode |-> 26, dataCode |-> "11026", officialName |-> "Romita"],
       [key |-> 27, geoJsonCode |-> 27, dataCode |-> "11027", officialName |-> "Salamanca"],
       [key |-> 28, geoJsonCode |-> 28, dataCode |-> "11028", officialName |-> "Salvatierra"],
       [key |-> 29, geoJsonCode |-> 29, dataCode |-> "11029", officialName |-> "San Diego de la Unión"],
       [key |-> 30, geoJsonCode |-> 30, dataCode |-> "11030", officialName |-> "San Felipe"],
       [key |-> 31, geoJsonCode |-> 31, dataCode |-> "11031", officialName |-> "San Francisco del Rincón"],
       [key |-> 32, geoJsonCode |-> 32, dataCode |-> "11032", officialName |-> "San José Iturbide"],
       [key |-> 33, geoJsonCode |-> 33, dataCode |-> "11033", officialName |-> "San Luis de la Paz"],
       [key |-> 34, geoJsonCode |-> 34, dataCode |-> "11034", officialName |-> "Santa Catarina"],
       [key |-> 35, geoJsonCode |-> 35, dataCode |-> "11035", officialName |-> "Santa Cruz de Juventino Rosas"],
       [key |-> 36, geoJsonCode |-> 36, dataCode |-> "11036", officialName |-> "Santiago Maravatío"],
       [key |-> 37, geoJsonCode |-> 37, dataCode |-> "11037", officialName |-> "Silao"],
       [key |-> 38, geoJsonCode |-> 38, dataCode |-> "11038", officialName |-> "Tarandacuao"],
       [key |-> 39, geoJsonCode |-> 39, dataCode |-> "11039", officialName |-> "Tarimoro"],
       [key |-> 40, geoJsonCode |-> 40, dataCode |-> "11040", officialName |-> "Tierra Blanca"],
       [key |-> 41, geoJsonCode |-> 41, dataCode |-> "11041", officialName |-> "Uriangato"],
       [key |-> 42, geoJsonCode |-> 42, dataCode |-> "11042", officialName |-> "Valle de Santiago"],
       [key |-> 43, geoJsonCode |-> 43, dataCode |-> "11043", officialName |-> "Victoria"],
       [key |-> 44, geoJsonCode |-> 44, dataCode |-> "11044", officialName |-> "Villagrán"],
       [key |-> 45, geoJsonCode |-> 45, dataCode |-> "11045", officialName |-> "Xichú"],
       [key |-> 46, geoJsonCode |-> 46, dataCode |-> "11046", officialName |-> "Yuriria"] >>

\* GUANAJUATO_MUNICIPALITIES[geoJsonCode]: the position of the entry with that
\* key, 0 when the object has no such key
getMunicipalityByGeoCode(geoJsonCode) ==
    LET hits == { k \in DOMAIN GUANAJUATO_MUNICIPALITIES : GUANAJUATO_MUNICIPALITIES[k].key = geoJsonCode }
    IN  IF hits = {} THEN 0 ELSE CHOOSE k \in hits : TRUE

\* Object.values(...).find(info => info.dataCode === dataCode): the position
\* of the first such entry, 0 when there is none
getMunicipalityByDataCode(dataCode) ==
    LET hits == { k \in DOMAIN GUANAJUATO_MUNICIPALITIES : GUANAJUATO_MUNICIPALITIES[k].dataCode = dataCode }
    IN  IF hits = {} THEN 0 ELSE CHOOSE k \in hits : \A h \in hits : k <= h

\* geoCodeToDataCode: GUANAJUATO_MUNICIPALITIES[geoJsonCode]?.dataCode
geoCodeToDataCode(geoJsonCode) ==
    IF getMunicipalityByGeoCode(geoJsonCode) = 0 THEN Absent
    ELSE GUANAJUATO_MUNICIPALITIES[getMunicipalityByGeoCode(geoJsonCode)].dataCode

\* a conversion that returns the code after the right one
dataCodeToGeoCode_nextCode(dataCode) ==
    IF getMunicipalityByDataCode(dataCode) = 0 THEN Undefined
    ELSE GUANAJUATO_MUNICIPALITIES[getMunicipalityByDataCode(dataCode)].geoJsonCode + 1

\* dataCodeToGeoCode: the geoJsonCode of the entry found, or undefined
dataCodeToGeoCode(dataCode) ==
    IF getMunicipalityByDataCode(dataCode) = 0 THEN Undefined
    ELSE GUANAJUATO_MUNICIPALITIES[getMunicipalityByDataCode(dataCode)].geoJsonCode

\* createGeoToDataCodeMap and createDataToGeoCodeMap: Maps filled in the
\* order of the table, a later set on a key replacing the earlier one
createGeoToDataCodeMap ==
    [c \in { GUANAJUATO_MUNICIPALITIES[k].geoJsonCode : k \in DOMAIN GUANAJUATO_MUNICIPALITIES } |->
        LET last == CHOOSE k \in DOMAIN GUANAJUATO_MUNICIPALITIES :
                        /\ GUANAJUATO_MUNICIPALITIES[k].geoJsonCode = c
                        /\ \A h \in DOMAIN GUANAJUATO_MUNICIPALITIES :
                              GUANAJUATO_MUNICIPALITIES[h].geoJsonCode = c => h <= k
        IN  GUANAJUATO_MUNICIPALITIES[last].dataCode]
createDataToGeoCodeMap ==
    [d \in { GUANAJUATO_MUNICIPALITIES[k].dataCode : k \in DOMAIN GUANAJUATO_MUNICIPALITIES } |->
        LET last == CHOOSE k \in DOMAIN GUANAJUATO_MUNICIPALITIES :
                        /\ GUANAJUATO_MUNICIPALITIES[k].dataCode = d
                        /\ \A h \in DOMAIN GUANAJUATO_MUNICIPALITIES :
                              GUANAJUATO_MUNICIPALITIES[h].dataCode = d => h <= k
        IN  GUANAJUATO_MUNICIPALITIES[last].geoJsonCode]

\* one round of conversions on the queried codes: mun_code to data code,
\* back, and to the data code again; and the queried data code to mun_code
convert ==
    /\ ~converted.called
    /\ converted' =
          LET dataCode == geoCodeToDataCode(query.geoJsonCode)
              geoCode == dataCodeToGeoCode(dataCode)
          IN  [called |-> TRUE,
               dataCode |-> dataCode,
               geoCode |-> geoCode,
               dataCodeAgain |-> geoCodeToDataCode(geoCode),
               fromData |-> dataCodeToGeoCode(query.dataCode)]
    /\ UNCHANGED <<query, codeArgs, codeAlignment, storeVars, joinVars, mapVars, reportVars, correctVars>>

\* !x for an optional number: undefined and 0 are falsy
Falsy(x) == x = Undefined \/ x = 0

\* the officialName of the entry at a position, undefined for position 0
officialNameAt(k) == IF k = 0 THEN Absent ELSE GUANAJUATO_MUNICIPALITIES[k].officialName

\* the forEach over geoJsonCodes: matched (wanted = TRUE) or missingInData,
\* in the order of the array
geoCodeEntries(geoJsonCodes, dataCodes, wanted) ==
    LET isMatched(geoCode) ==
            /\ geoCodeToDataCode(geoCode) # Absent
            /\ \E j \in DOMAIN dataCodes : dataCodes[j] = geoCodeToDataCode(geoCode)
        kept == SelectSeq(geoJsonCodes, LAMBDA geoCode : isMatched(geoCode) = wanted)
    IN  [i \in DOMAIN kept |->
            [geoCode |-> kept[i],
             dataCode |-> OrElse(geoCodeToDataCode(kept[i]), "Unknown"),
             name |-> OrElse(officialNameAt(getMunicipalityByGeoCode(kept[i])), "Unknown")]]

\* the forEach over dataCodes: missingInGeo, in the order of the array
dataCodeEntries(geoJsonCodes, dataCodes) ==
    LET isMissing(dataCode) ==
            \/ Falsy(dataCodeToGeoCode(dataCode))
            \/ ~\E i \in DOMAIN geoJsonCodes : geoJsonCodes[i] = dataCodeToGeoCode(dataCode)
        kept == SelectSeq(dataCodes, isMissing)
    IN  [j \in DOMAIN kept |->
            [dataCode |-> kept[j],
             expectedGeoCode |-> dataCodeToGeoCode(kept[j]),
             name |-> officialNameAt(getMunicipalityByDataCode(kept[j]))]]

\* validateCodeAlignment(geoJsonCodes, dataCodes); the ratio
\* matched.length / Math.max(geoJsonCodes.length, dataCodes.length) is kept
\* as numerator and denominator
validateCodeAlignment(geoJsonCodes, dataCodes) ==
    LET matched == geoCodeEntries(geoJsonCodes, dataCodes, TRUE)
    IN  [called |-> TRUE,
         matched |-> matched,
         missingInData |-> geoCodeEntries(geoJsonCodes, dataCodes, FALSE),
         missingInGeo |-> dataCodeEntries(geoJsonCodes, dataCodes),
         alignmentRatio |-> [num |-> Len(matched), den |-> Max(Len(geoJsonCodes), Len(dataCodes))],
         summary |-> [total |-> Max(Len(geoJsonCodes), Len(dataCodes)),
                      matched |-> Len(matched),
                      geoJsonCount |-> Len(geoJsonCodes),
                      dataCount |-> Len(dataCodes)]]

\* one call of validateCodeAlignment on the arrays
align ==
    /\ ~codeAlignment.called
    /\ codeAlignment' = validateCodeAlignment(codeArgs.geoJsonCodes, codeArgs.dataCodes)
    /\ UNCHANGED <<query, converted, codeArgs, storeVars, joinVars, mapVars, reportVars, correctVars>>

\* the crosswalk is not in use
CrosswalkIdle ==
    /\ query = [geoJsonCode |-> 1, dataCode |-> "11001"]
    /\ converted = [called |-> FALSE]
    /\ codeArgs = [geoJsonCodes |-> <<>>, dataCodes |-> <<>>]
    /\ codeAlignment = [called |-> FALSE]

\* the codes asked of the conversions: every mun_code of the table, the
\* numbers next to them, and a data code that is or is not in the table
QueryInputs ==
    /\ query \in [geoJsonCode : 0..(Len(GUANAJUATO_MUNICIPALITIES) + 1),
                  dataCode : {"11001", "11046", "11099"}]
    /\ converted = [called |-> FALSE]
    /\ codeArgs = [geoJsonCodes |-> <<>>, dataCodes |-> <<>>]
    /\ codeAlignment = [called |-> FALSE]

\* the arrays given to validateCodeAlignment: codes inside and outside the table
AlignInputs ==
    /\ query = [geoJsonCode |-> 1, dataCode |-> "11001"]
    /\ converted = [called |-> FALSE]
    /\ codeArgs \in [geoJsonCodes : SeqsUpTo({1, 2, 47}, MaxCodes),
                     dataCodes : SeqsUpTo({"11001", "11002", "11099"}, MaxCodes)]
    /\ codeAlignment = [called |-> FALSE]

vars == <<storeVars, joinVars, mapVars, reportVars, correctVars, crosswalkVars>>

\* the store used by callers whose listeners only read their argument
Init ==
    /\ StoreInit
    /\ body = [l \in Listeners |-> Passive]
    /\ JoinIdle
    /\ MapIdle
    /\ ReportIdle
    /\ CorrectIdle
    /\ CrosswalkIdle

Next == StoreNext

Spec == Init /\ [][Next]_vars

\* the store with listeners whose bodies subscribe or unsubscribe listeners
InitCallback ==
    /\ StoreInit
    /\ body \in [Listeners -> Behaviours]
    /\ JoinIdle
    /\ MapIdle
    /\ ReportIdle
    /\ CorrectIdle
    /\ CrosswalkIdle

\* the visibility operations and the registry operations
NextCallback ==
    \/ \E id \in OpIds : toggleLayer(id)
    \/ \E id \in OpIds, v \in BOOLEAN : setLayerVisibility(id, v)
    \/ hideAllLayers
    \/ \E l \in Listeners : subscribe(l)
    \/ \E l \in Listeners : unsubscribe(l)

SpecCallback == InitCallback /\ [][NextCallback]_vars

\* the store with a caller that keeps the arrays getLayers returns
NextHeld ==
    \/ StoreNext
    \/ keepLayers

SpecHeld == Init /\ [][NextHeld]_vars

\* joins with the default code fields
InitJoin ==
    /\ StoreInit
    /\ body = [l \in Listeners |-> Passive]
    /\ JoinInputsDefault
    /\ MapIdle
    /\ ReportIdle
    /\ CorrectIdle
    /\ CrosswalkIdle

NextJoin == join

SpecJoin == InitJoin /\ [][NextJoin]_vars

\* joins with default or caller-supplied code fields
InitJoinOptions ==
    /\ StoreInit
    /\ body = [l \in Listeners |-> Passive]
    /\ JoinInputsAny
    /\ MapIdle
    /\ ReportIdle
    /\ CorrectIdle
    /\ CrosswalkIdle

SpecJoinOptions == InitJoinOptions /\ [][NextJoin]_vars

\* classifications of joined collections
InitClassify ==
    /\ StoreInit
    /\ body = [l \in Listeners |-> Passive]
    /\ JoinIdle
    /\ MapInputs
    /\ ReportIdle
    /\ CorrectIdle
    /\ CrosswalkIdle

NextClassify == createMapping

SpecClassify == InitClassify /\ [][NextClassify]_vars

\* validations of geometry collections
InitValidate ==
    /\ StoreInit
    /\ body = [l \in Listeners |-> Passive]
    /\ JoinIdle
    /\ MapIdle
    /\ ReportInputs
    /\ CorrectIdle
    /\ CrosswalkIdle

NextValidate == validate

SpecValidate == InitValidate /\ [][NextValidate]_vars

\* corrections of geometry collections, and validations of the result
NextCorrect ==
    \/ correct
    \/ validateCorrected

SpecCorrect == InitValidate /\ [][NextCorrect]_vars

\* conversions between mun_codes and data codes
InitCrosswalk ==
    /\ StoreInit
    /\ body = [l \in Listeners |-> Passive]
    /\ JoinIdle
    /\ MapIdle
    /\ ReportIdle
    /\ CorrectIdle
    /\ QueryInputs

NextCrosswalk == convert

SpecCrosswalk == InitCrosswalk /\ [][NextCrosswalk]_vars

\* alignments of mun_codes with data codes
InitAlign ==
    /\ StoreInit
    /\ body = [l \in Listeners |-> Passive]
    /\ JoinIdle
    /\ MapIdle
    /\ ReportIdle
    /\ CorrectIdle
    /\ AlignInputs

NextAlign == align

SpecAlign == InitAlign /\ [][NextAlign]_vars

\* ------------------------------------------------- Layer State Store claims

\* the operations that take a layer id and do nothing when it is unknown
GuardedOps == {"toggleLayer", "setLayerVisibility", "setLayerLoading", "setLayerData"}

\* the mutating operations
Mutators == GuardedOps \cup {"showOnlyLayer", "hideAllLayers", "reset"}

\* the call `op`, made when the heap is h, is one of the documented no-ops
DocumentedNoOp(h, op) ==
    \/ op.op \in GuardedOps /\ op.id \notin ConfiguredIds
    \/ /\ op.op = "setLayerVisibility"
       /\ op.id \in ConfiguredIds
       /\ h[MapGet(layers, op.id)].isVisible = op.visible

\* the position of l in the listener registry, 0 when it is not registered
Pos(entries, l) == IF SetHas(entries, l) THEN CHOOSE i \in DOMAIN entries : entries[i] = l ELSE 0

\* how many times the listener l was invoked by the calls cs
TimesInvoked(cs, l) == Cardinality({ i \in DOMAIN cs : cs[i].listener = l })

\* the layer record with the given id in a delivered snapshot
SeenVisible(seen, id) == \E k \in DOMAIN seen : seen[k].id = id /\ seen[k].isVisible

C3_NoOpsChangeNothing ==
    [][ ( /\ lastOp'.op \in {"toggleLayer", "setLayerVisibility"}
          /\ DocumentedNoOp(heap, lastOp') ) =>
           /\ heap' = heap
           /\ layers' = layers
           /\ calls' = <<>>
           /\ lastOp'.ret \in BOOLEAN
           /\ lastOp'.id \notin ConfiguredIds => lastOp'.ret = FALSE
      ]_vars

\* setLayerVisibility on a known layer returned without invoking the
\* registered listener: the layer already had the value
C3_Witness ==
    /\ lastOp.op = "setLayerVisibility"
    /\ lastOp.id = PrimaryLayer
    /\ lastOp.visible
    /\ lastOp.ret
    /\ listeners # <<>>
    /\ calls = <<>>
    /\ heap[MapGet(layers, PrimaryLayer)].isVisible

\* the fields of a layer record that C4 names
ShownFields(l) == <<l.isVisible, l.isLoading, l.hasData, l.dataCount>>

\* C4: the records of a snapshot obtained earlier keep the field values they
\* had, whatever operation comes later
C4_SnapshotKeepsItsValues ==
    [][ (held # <<>> /\ held' = held) =>
           \A i \in DOMAIN held : ShownFields(heap'[held[i]]) = ShownFields(heap[held[i]])
      ]_vars

\* C5: a listener that is registered when a broadcast starts, and that
\* another listener unsubscribes from its body before its turn, is still
\* invoked in that broadcast
C5_RemovalSparesCurrentRound ==
    [][ \A a, b \in Listeners :
           ( /\ a # b
             /\ body[a] = <<"unsubscribe", b>>
             /\ Pos(listeners, a) > 0
             /\ Pos(listeners, b) > Pos(listeners, a)
             /\ TimesInvoked(calls', a) > 0 ) =>
              TimesInvoked(calls', b) > 0
      ]_vars

\* C6: toggleLayer(id) twice restores the heap for a known id; with an
\* unknown id one call changes nothing, notifies nobody and returns false
C6_ToggleTwiceRestores ==
    \A id \in ConfiguredIds \cup {UnknownId} :
        LET once == toggleLayerCall(heap, layers, id)
            twice == toggleLayerCall(once.heap, layers, id)
        IN  IF id \in ConfiguredIds
            THEN /\ once.heap[MapGet(layers, id)].isVisible # heap[MapGet(layers, id)].isVisible
                 /\ twice.heap = heap
                 /\ twice.ret = heap[MapGet(layers, id)].isVisible
            ELSE /\ once.heap = heap
                 /\ once.ret = FALSE
                 /\ ~once.notify

\* a second toggleLayer("desapariciones") has hidden the layer again and the
\* heap is the initial one
C6_Witness ==
    /\ lastOp.op = "toggleLayer"
    /\ lastOp.id = "desapariciones"
    /\ lastOp.ret = FALSE
    /\ heap = initializeLayers.heap

\* C7: the Map holds exactly one entry, with its own object, per configured
\* id, and the id, name, description and visualizationType of every object
\* are the ones it was created with
C7_OneStatePerConfiguredLayer ==
    /\ { layers[i].key : i \in DOMAIN layers } = ConfiguredIds
    /\ Len(layers) = Cardinality(ConfiguredIds)
    /\ \A i, j \in DOMAIN layers : i # j => layers[i].ref # layers[j].ref
    /\ \A i \in DOMAIN layers :
          LET l == heap[layers[i].ref]
              c == ATLAS_LAYERS[i]
          IN  /\ l.id = layers[i].key
              /\ l.id = c.id
              /\ l.name = c.name
              /\ l.description = c.description
              /\ l.visualizationType = determineVisualizationType(c)

\* reset has run after operations that changed the layers
C7_Witness ==
    /\ lastOp.op = "reset"
    /\ Len(layers) = Len(ATLAS_LAYERS)
    /\ Len(calls) = MaxListeners

\* C8: right after showOnlyLayer(id) a layer is visible iff its key is id, so
\* getStatistics().visible is 1 for a configured id; right after
\* hideAllLayers() no layer is visible and getStatistics().visible is 0
C8_ShowOnlyAndHideAll ==
    /\ lastOp.op = "showOnlyLayer" =>
          /\ \A i \in DOMAIN layers : heap[layers[i].ref].isVisible = (layers[i].key = lastOp.id)
          /\ lastOp.id \in ConfiguredIds => getStatistics(heap, layers).visible = 1
          /\ lastOp.id \notin ConfiguredIds => getStatistics(heap, layers).visible = 0
    /\ lastOp.op = "hideAllLayers" =>
          /\ \A i \in DOMAIN layers : ~heap[layers[i].ref].isVisible
          /\ getStatistics(heap, layers).visible = 0

\* showOnlyLayer("desapariciones") has run: that layer alone is visible
C8_Witness ==
    /\ lastOp.op = "showOnlyLayer"
    /\ lastOp.id = "desapariciones"
    /\ heap[MapGet(layers, "desapariciones")].isVisible
    /\ ~heap[MapGet(layers, PrimaryLayer)].isVisible
    /\ getStatistics(heap, layers).visible = 1

\* C9: right after reset() the heap is the one initializeLayers built: the
\* primary layer alone visible, nothing loading, no data, no dataCount and no
\* lastUpdated
C9_ResetRestoresInitialState ==
    lastOp.op = "reset" =>
        /\ heap = initializeLayers.heap
        /\ \A i \in DOMAIN layers :
              LET l == heap[layers[i].ref]
              IN  /\ l.isVisible = (layers[i].key = PrimaryLayer)
                  /\ ~l.isLoading
                  /\ ~l.hasData
                  /\ l.dataCount = Undefined
                  /\ l.lastUpdated = NoDate
        /\ getStatistics(heap, layers).visible = 1

\* reset has run and the listeners saw the restored state
C9_Witness ==
    /\ lastOp.op = "reset"
    /\ calls # <<>>
    /\ calls[1].seen = Deref(initializeLayers.heap, MapValues(initializeLayers.layers))

\* ------------------------------------------------------ Join Engine claims

\* the dataset has a record whose code field `field` holds the code `code`
\* (a feature without the code property matches no record)
HasRecordWithCode(records, field, code) ==
    code # Absent /\ \E j \in DOMAIN records : records[j][field] = code

\* C10: after a join, under the default or the caller-supplied code fields,
\* a feature has hasData iff some record's dataCodeField value equals the
\* feature's geoCodeField value; its data is then such a record, and is
\* absent otherwise
C10_HasDataIffRecordMatches ==
    joined.called =>
        LET opt == WithDefaults(options)
        IN  \A i \in DOMAIN joined.features :
               LET f == joined.features[i]
                   code == geoJson[i][opt.geoCodeField]
               IN  /\ f.hasData <=> HasRecordWithCode(dataFile, opt.dataCodeField, code)
                   /\ f.hasData => (f.data # NoRecord /\ dataFile[f.data][opt.dataCodeField] = code)
                   /\ ~f.hasData => f.data = NoRecord

\* C11: a join returns one feature per input feature, in the input's order:
\* the i-th output feature keeps the i-th input feature's properties (its
\* code where it has one), and metadata.totalFeatures is that count
C11_JoinKeepsEveryFeature ==
    joined.called =>
        /\ Len(joined.features) = Len(geoJson)
        /\ joined.metadata.totalFeatures = Len(geoJson)
        /\ \A i \in DOMAIN geoJson :
              /\ joined.features[i].clave = geoJson[i].clave
              /\ geoJson[i].cvegeo # Absent => joined.features[i].cvegeo = geoJson[i].cvegeo

\* a join of two features of one code, one record of that code and one record
\* whose code no feature has
C11_Witness ==
    /\ joined.called
    /\ Len(geoJson) = 2
    /\ geoJson[1].cvegeo = geoJson[2].cvegeo
    /\ geoJson[1].cvegeo # Absent
    /\ \E j \in DOMAIN dataFile : dataFile[j].municipio = geoJson[1].cvegeo
    /\ \E j \in DOMAIN dataFile : \A i \in DOMAIN geoJson : dataFile[j].municipio # geoJson[i].cvegeo

\* the positions of the records that carry a code
RecordsWithCode(records, code) == { j \in DOMAIN records : records[j].municipio = code }

\* C12: a feature whose code several records carry is given the record that
\* comes last in dataFile.records
C12_LastRecordWins ==
    joined.called =>
        \A i \in DOMAIN geoJson :
            LET js == RecordsWithCode(dataFile, geoJson[i].cvegeo)
            IN  js # {} =>
                    /\ joined.features[i].hasData
                    /\ joined.features[i].data = CHOOSE j \in js : \A k \in js : k <= j

\* a join in which two records carry the code of a feature
C12_Witness ==
    /\ joined.called
    /\ \E i \in DOMAIN geoJson :
          /\ Cardinality(RecordsWithCode(dataFile, geoJson[i].cvegeo)) >= 2
          /\ joined.features[i].data = Len(dataFile)

\* the codes the join reads from the features and from the records
GeoCodeSet == { geoJson[i][WithDefaults(options).geoCodeField] : i \in DOMAIN geoJson }
DataCodeSet == { dataFile[j][WithDefaults(options).dataCodeField] : j \in DOMAIN dataFile }

\* a ratio num/den is the number n; 0/0 (NaN) is no number
RatioIs(r, n) == r.den # 0 /\ r.num = n * r.den

\* C13: the reported alignmentRatio is 1 iff the geometry codes and the data
\* codes are the same set
C13_RatioOneIffSameCodes ==
    joined.called =>
        (RatioIs(joined.metadata.dataAlignment, 1) <=> GeoCodeSet = DataCodeSet)

\* C14: the reported alignmentRatio is a number between 0 and 1
C14_RatioWithinUnitInterval ==
    joined.called =>
        LET r == joined.metadata.dataAlignment
        IN  /\ r.den > 0
            /\ 0 <= r.num
            /\ r.num <= r.den

\* the elements of a sequence
Range(s) == { s[i] : i \in DOMAIN s }

\* a sequence without repeated elements
DuplicateFree(s) == \A i, j \in DOMAIN s : s[i] = s[j] => i = j

\* Scenario A: 46 geometry codes of which the data covers 40 and no others
ScenarioA ==
    LET a == validateMunicipalityAlignment([i \in 1..46 |-> i], [i \in 1..40 |-> i])
    IN  /\ Len(a.missingInData) = 6
        /\ a.alignmentRatio = [num |-> 40, den |-> 46]

\* C15: the alignment a join computes splits the union of the geometry codes
\* and the data codes into matching, missingInData and missingInGeo, without
\* overlap or repetition; when the data codes are M of the G geometry codes
\* it reports G - M missingInData codes and the ratio M/G
C15_AlignmentPartitionsCodes ==
    joined.called =>
        LET a == joined.alignment
            G == Cardinality(GeoCodeSet)
            M == Cardinality(DataCodeSet)
        IN  /\ DuplicateFree(a.matching) /\ DuplicateFree(a.missingInData) /\ DuplicateFree(a.missingInGeo)
            /\ Range(a.matching) \cap Range(a.missingInData) = {}
            /\ Range(a.matching) \cap Range(a.missingInGeo) = {}
            /\ Range(a.missingInData) \cap Range(a.missingInGeo) = {}
            /\ Range(a.matching) \cup Range(a.missingInData) \cup Range(a.missingInGeo)
                  = GeoCodeSet \cup DataCodeSet
            /\ Range(a.matching) = GeoCodeSet \cap DataCodeSet
            /\ Range(a.missingInData) = GeoCodeSet \ DataCodeSet
            /\ Range(a.missingInGeo) = DataCodeSet \ GeoCodeSet
            /\ joined.metadata.missingDataCodes = a.missingInData
            /\ (DataCodeSet \subseteq GeoCodeSet /\ G > 0) =>
                  /\ Len(a.missingInData) = G - M
                  /\ joined.metadata.dataAlignment = [num |-> M, den |-> G]
            /\ ScenarioA

\* a join of two features of different codes and repeated records of one of them
C15_Witness ==
    /\ joined.called
    /\ Cardinality(GeoCodeSet) = 2
    /\ Cardinality(DataCodeSet) = 1
    /\ Len(dataFile) = 2
    /\ DataCodeSet \subseteq GeoCodeSet
    /\ Len(joined.alignment.missingInData) = 1
    /\ joined.metadata.dataAlignment = [num |-> 1, den |-> 2]

\* ------------------------------------------------------ Classification claims

\* a <= b for fractions; false when either is NaN
LE(a, b) == a.den > 0 /\ b.den > 0 /\ a.num * b.den <= b.num * a.den

\* each break is at most the next one
NonDecreasing(breaks) == \A i \in 1..(Len(breaks) - 1) : LE(breaks[i], breaks[i + 1])

\* C16: whenever at least one value was extracted, the breaks computed by
\* either method are in non-decreasing order
C16_BreaksNonDecreasing ==
    (getColor.called /\ ~getColor.constant) => NonDecreasing(getColor.breaks)

\* the classification of Scenario C was created: values 10..50, quintiles, 5 colours
ScenarioCClassified ==
    /\ getColor.called
    /\ getColor.values = <<10, 20, 30, 40, 50>>
    /\ mapOptions.method = "quintiles"
    /\ Len(colorScale) = 5

\* C17 as stated: in Scenario C the breaks are 10, 10, 20, 30, 40, 50 and the
\* value 25 is given the 3rd colour
C17_ScenarioC ==
    ScenarioCClassified =>
        /\ getColor.breaks = <<Num(10), Num(10), Num(20), Num(30), Num(40), Num(50)>>
        /\ colorForValue(25, getColor.breaks, colorScale) = colorScale[3]

\* C17, as the code computes it: in Scenario C the breaks are 10, 20, 30, 40,
\* 50, 50 and the value 25 is given the 2nd colour
C17_ScenarioCAsComputed ==
    ScenarioCClassified =>
        /\ getColor.breaks = <<Num(10), Num(20), Num(30), Num(40), Num(50), Num(50)>>
        /\ colorForValue(25, getColor.breaks, colorScale) = colorScale[2]

\* Scenario C has been classified
C17_Witness == ScenarioCClassified

\* the codes a caller may ask the colour of: those of the features and others
AskedCodes == { MunicipalityCodes[i] : i \in DOMAIN MunicipalityCodes } \cup {UnknownCode}

\* C18: the returned function gives noDataColor for the code of every feature
\* without data and for every code that no feature has; when no feature has
\* data it gives noDataColor for every code
C18_NoDataColorWithoutData ==
    getColor.called =>
        /\ \A i \in DOMAIN enhancedGeoJson :
              ~enhancedGeoJson[i].hasData =>
                  getColorCall(getColor, enhancedGeoJson[i].cvegeo) = getColor.noDataColor
        /\ \A c \in AskedCodes :
              (\A i \in DOMAIN enhancedGeoJson : enhancedGeoJson[i].cvegeo # c) =>
                  getColorCall(getColor, c) = getColor.noDataColor
        /\ (\A i \in DOMAIN enhancedGeoJson : ~enhancedGeoJson[i].hasData) =>
              /\ getColor.constant
              /\ \A c \in AskedCodes : getColorCall(getColor, c) = getColor.noDataColor

\* a classification of a collection in which a feature without data follows
\* features with negative and positive values
C18_Witness ==
    /\ getColor.called
    /\ ~getColor.constant
    /\ \E i \in DOMAIN enhancedGeoJson : ~enhancedGeoJson[i].hasData
    /\ \E i \in DOMAIN enhancedGeoJson : enhancedGeoJson[i].hasData /\ enhancedGeoJson[i].value < 0
    /\ \E i \in DOMAIN enhancedGeoJson : enhancedGeoJson[i].hasData /\ enhancedGeoJson[i].value > 0

\* the place of a colour in the colour list (from 1), 0 for a colour that is
\* not in it
Position(colors, c) ==
    IF \E i \in DOMAIN colors : colors[i] = c
    THEN CHOOSE i \in DOMAIN colors : colors[i] = c
    ELSE 0

\* C19: of two features with data, the one with the smaller (or equal) value
\* is given a colour that stands no later in the colour list
C19_ColourMonotoneInValue ==
    getColor.called =>
        \A i, j \in DOMAIN enhancedGeoJson :
            (/\ enhancedGeoJson[i].hasData
             /\ enhancedGeoJson[j].hasData
             /\ enhancedGeoJson[i].value <= enhancedGeoJson[j].value) =>
                Position(colorScale, getColorCall(getColor, enhancedGeoJson[i].cvegeo))
                    <= Position(colorScale, getColorCall(getColor, enhancedGeoJson[j].cvegeo))

\* ----------------------------------------------------------- Validator claims

\* how many issues of a report have a severity
IssuesOfSeverity(severity) ==
    Cardinality({ i \in DOMAIN report.issues : report.issues[i].severity = severity })

\* C20: a report is valid iff none of its issues is an error, and its summary
\* holds the number of issues of each severity, which add up to the number
\* of issues; also for an input without a features list
C20_ValidIffNoError ==
    report.called =>
        /\ report.isValid <=> IssuesOfSeverity("error") = 0
        /\ report.summary.errors = IssuesOfSeverity("error")
        /\ report.summary.warnings = IssuesOfSeverity("warning")
        /\ report.summary.info = IssuesOfSeverity("info")
        /\ report.summary.errors + report.summary.warnings + report.summary.info
              = Len(report.issues)

\* a report on a collection with a feature that is valid although it holds warnings
C20_Witness ==
    /\ report.called
    /\ Len(geoJsonData.features) > 0
    /\ report.isValid
    /\ report.summary.warnings > 0

\* the features of the validated collection and their properties
Checked == geoJsonData.features
Props(i) == Checked[i].properties

\* the complete features whose name no other feature of the collection has,
\* so that the issues that carry the name are the feature's own
CompleteAndAlone(i) ==
    /\ HasRequired(Props(i))
    /\ \A j \in DOMAIN Checked : j # i => Props(j).mun_name # Props(i).mun_name

\* the positions in the catalog of the units with a clave / with a name that
\* equals the given one when case is ignored
UnitsByCode(code) ==
    { k \in DOMAIN INEGI_GUANAJUATO_MUNICIPALITIES : INEGI_GUANAJUATO_MUNICIPALITIES[k].clave = code }
UnitsByName(name) ==
    { k \in DOMAIN INEGI_GUANAJUATO_MUNICIPALITIES :
        toLowerCase(INEGI_GUANAJUATO_MUNICIPALITIES[k].nombre) = toLowerCase(name) }

\* the issues of the report that step 4 pushed for a feature of that name
IssuesNamed(name, type, severity) ==
    { k \in DOMAIN report.issues :
        /\ report.issues[k].municipality = name
        /\ report.issues[k].type = type
        /\ report.issues[k].severity = severity }

\* the catalog issues about a feature of that name
CatalogIssues(name) ==
    IssuesNamed(name, "wrong_name", "warning") \cup IssuesNamed(name, "wrong_code", "error")
        \cup IssuesNamed(name, "missing_municipality", "error")

\* C21: for a complete feature, no catalog issue is emitted only if its code
\* and its name identify the same catalog unit; a code of a unit with
\* another name gives a name-mismatch warning, a name of a unit with another
\* code gives a code-mismatch error, and a feature that neither lookup
\* finds gives a not-in-catalog error
C21_CatalogOutcomes ==
    report.called =>
        \A i \in DOMAIN Checked :
            CompleteAndAlone(i) =>
                LET name == Props(i).mun_name
                    byCode == UnitsByCode(expectedCode(Props(i)))
                    byName == UnitsByName(name)
                IN  /\ CatalogIssues(name) = {} => (byCode # {} /\ byCode = byName)
                    /\ (byCode # {} /\ byCode \cap byName = {}) =>
                          IssuesNamed(name, "wrong_name", "warning") # {}
                    /\ (byName # {} /\ byCode \cap byName = {}) =>
                          IssuesNamed(name, "wrong_code", "error") # {}
                    /\ (byCode = {} /\ byName = {}) =>
                          IssuesNamed(name, "missing_municipality", "error") # {}

\* C22: a complete feature whose code is in the catalog and whose name is
\* not gets exactly one name-mismatch warning and no catalog error, the unit
\* of its code is not reported as missing, and a collection of features that
\* have the right state code, a geometry and a code of the catalog is valid
C22_NameMismatchIsWarning ==
    report.called =>
        /\ \A i \in DOMAIN Checked :
              (/\ CompleteAndAlone(i)
               /\ UnitsByCode(expectedCode(Props(i))) # {}
               /\ UnitsByName(Props(i).mun_name) = {}) =>
                  /\ Cardinality(IssuesNamed(Props(i).mun_name, "wrong_name", "warning")) = 1
                  /\ IssuesNamed(Props(i).mun_name, "wrong_code", "error") = {}
                  /\ IssuesNamed(Props(i).mun_name, "missing_municipality", "error") = {}
                  /\ \A k \in UnitsByCode(expectedCode(Props(i))) :
                        IssuesNamed(INEGI_GUANAJUATO_MUNICIPALITIES[k].nombre,
                                    "missing_municipality", "warning") = {}
        /\ (/\ geoJsonData.hasFeatures
            /\ \A i \in DOMAIN Checked :
                  /\ HasRequired(Props(i))
                  /\ Props(i).state_code = 11
                  /\ Checked[i].geometry
                  /\ UnitsByCode(expectedCode(Props(i))) # {}) => report.isValid

\* a validated collection that holds only the feature Leon with the code of León
C22_Witness ==
    /\ report.called
    /\ Len(Checked) = 1
    /\ Props(1) = [state_code |-> 11, mun_code |-> 20, mun_name |-> "Leon"]
    /\ Checked[1].geometry
    /\ report.isValid
    /\ report.summary.warnings = 46

\* the issues of the report about the feature at a (0-based) index
IssuesOfIndex(index) ==
    { k \in DOMAIN report.issues : report.issues[k].municipality = "Feature " \o toString(index) }

\* the issues step 4 pushes with a name: all but step 5's warnings
IssuesOfName(name) ==
    { k \in DOMAIN report.issues :
        /\ report.issues[k].municipality = name
        /\ ~(report.issues[k].type = "missing_municipality" /\ report.issues[k].severity = "warning") }

\* C23: a feature without one of the required properties gets exactly one
\* issue, an error; the features after it are validated as well (one with a
\* wrong state code is reported), and a report is returned
C23_IncompleteFeatureIsOneError ==
    report.called =>
        \A i \in DOMAIN Checked :
            /\ ~HasRequired(Props(i)) =>
                  /\ Cardinality(IssuesOfIndex(i - 1)) = 1
                  /\ \A k \in IssuesOfIndex(i - 1) :
                        /\ report.issues[k].severity = "error"
                        /\ report.issues[k].type = "missing_properties"
                  /\ (\A j \in DOMAIN Checked : j # i => Props(j).mun_name # Props(i).mun_name) =>
                        IssuesOfName(Props(i).mun_name) = {}
            /\ HasRequired(Props(i)) =>
                  /\ IssuesOfIndex(i - 1) = {}
                  /\ Props(i).state_code # 11 =>
                        IssuesNamed(Props(i).mun_name, "invalid_state_code", "error") # {}

\* a validated collection whose first feature lacks a property and whose
\* second feature has a wrong state code
C23_Witness ==
    /\ report.called
    /\ Len(Checked) = 2
    /\ ~HasRequired(Props(1))
    /\ HasRequired(Props(2))
    /\ Props(2).state_code = 12
    /\ IssuesNamed(Props(2).mun_name, "invalid_state_code", "error") # {}

\* ---------------------------------------------------------- Correction claims

\* C24: a correction returns, without throwing, as many features as it was
\* given, in their order; a feature whose name is that of a catalog unit
\* with another code has the unit's code afterwards, and a feature that no
\* catalog unit matches is returned as it was
C24_CorrectionRewritesCodes ==
    corrected.called =>
        /\ ~corrected.threw
        /\ Len(corrected.features) = Len(Checked)
        /\ \A i \in DOMAIN Checked :
              LET byCode == UnitsByCode(expectedCode(Props(i)))
                  byName == UnitsByName(Props(i).mun_name)
              IN  /\ (byName # {} /\ byCode \cap byName = {}) =>
                        \A k \in byName :
                            expectedCode(corrected.features[i].properties)
                                = INEGI_GUANAJUATO_MUNICIPALITIES[k].clave
                  /\ (byName = {} /\ byCode = {}) => corrected.features[i] = Checked[i]

\* the issues of a report that say a code does not match
WrongCodeIssues(r) == { k \in DOMAIN r.issues : r.issues[k].type = "wrong_code" }

\* every feature of the collection carries the required properties
AllComplete == geoJsonData.hasFeatures /\ \A i \in DOMAIN Checked : HasRequired(Props(i))

\* C30: for a collection whose features all carry the required properties,
\* the validation of the corrected collection reports no code mismatch, and
\* correcting the corrected collection returns it unchanged
C30_CorrectionSettlesCodes ==
    (corrected.called /\ AllComplete) =>
        /\ ~corrected.threw
        /\ report.called => WrongCodeIssues(report) = {}
        /\ createCorrectedGeoJSON([hasFeatures |-> TRUE, features |-> corrected.features]).features
              = corrected.features

\* the corrected form of a collection with a code mismatch has been validated
C30_Witness ==
    /\ corrected.called
    /\ AllComplete
    /\ report.called
    /\ WrongCodeIssues(validateGeoJSONIntegrity(geoJsonData)) # {}
    /\ \E i \in DOMAIN Checked : corrected.features[i].properties.mun_code # Props(i).mun_code

\* ----------------------------------------------------------- Crosswalk claims

\* the compact codes of the 46 units
CompactCodes == 1..46

\* C25: every compact code in 1..46 has a data code, converting that back
\* gives the compact code and converting again gives the data code; the two
\* maps are inverse to one another over the 46 units, and no two compact
\* codes have the same data code
C25_CrosswalkRoundTrip ==
    /\ (converted.called /\ query.geoJsonCode \in CompactCodes) =>
          /\ converted.dataCode # Absent
          /\ converted.geoCode = query.geoJsonCode
          /\ converted.dataCodeAgain = converted.dataCode
    /\ LET geoToData == createGeoToDataCodeMap
           dataToGeo == createDataToGeoCodeMap
       IN  /\ DOMAIN geoToData = CompactCodes
           /\ Cardinality(DOMAIN dataToGeo) = 46
           /\ \A c \in CompactCodes :
                 /\ geoToData[c] = geoCodeToDataCode(c)
                 /\ dataToGeo[geoToData[c]] = c
                 /\ dataCodeToGeoCode(geoCodeToDataCode(c)) = c
           /\ \A c1, c2 \in CompactCodes : geoToData[c1] = geoToData[c2] => c1 = c2

\* the last compact code has been converted forth and back
C25_Witness ==
    /\ converted.called
    /\ query.geoJsonCode = 46
    /\ converted.dataCode = "11046"
    /\ converted.geoCode = 46

\* the codes of the two arrays, and the geoCode / dataCode fields of a list
GeoCodesGiven == { codeArgs.geoJsonCodes[i] : i \in DOMAIN codeArgs.geoJsonCodes }
DataCodesGiven == { codeArgs.dataCodes[j] : j \in DOMAIN codeArgs.dataCodes }
GeoCodesIn(list) == { list[i].geoCode : i \in DOMAIN list }
DataCodesIn(list) == { list[j].dataCode : j \in DOMAIN list }

\* the two collections correspond under the crosswalk: the data codes are
\* exactly the data codes of the compact codes
CorrespondExactly ==
    /\ \A c \in GeoCodesGiven : geoCodeToDataCode(c) \in DataCodesGiven
    /\ \A d \in DataCodesGiven : dataCodeToGeoCode(d) \in GeoCodesGiven

\* C26: a compact code is in matched iff its data code is among the data
\* codes and in missingInData otherwise; a data code is in missingInGeo iff
\* it maps back to no compact code or to one that was not given; the ratio
\* is |matched| / max of the two counts, lies between 0 and 1, and is 1 iff
\* the two collections correspond exactly
C26_CodeAlignment ==
    codeAlignment.called =>
        /\ \A c \in GeoCodesGiven :
              /\ c \in GeoCodesIn(codeAlignment.matched) <=> geoCodeToDataCode(c) \in DataCodesGiven
              /\ c \in GeoCodesIn(codeAlignment.missingInData) <=> geoCodeToDataCode(c) \notin DataCodesGiven
        /\ GeoCodesIn(codeAlignment.matched) \cup GeoCodesIn(codeAlignment.missingInData) = GeoCodesGiven
        /\ \A d \in DataCodesGiven :
              d \in DataCodesIn(codeAlignment.missingInGeo) <=> dataCodeToGeoCode(d) \notin GeoCodesGiven
        /\ DataCodesIn(codeAlignment.missingInGeo) \subseteq DataCodesGiven
        /\ codeAlignment.alignmentRatio.num = Len(codeAlignment.matched)
        /\ codeAlignment.alignmentRatio.den > 0
        /\ codeAlignment.alignmentRatio.num <= codeAlignment.alignmentRatio.den
        /\ RatioIs(codeAlignment.alignmentRatio, 1) <=> CorrespondExactly

\* ------------------------------------------- Classification claims, continued

\* the colours of the colour list
ColoursOf(colors) == { colors[i] : i \in DOMAIN colors }

\* C27: the returned function gives every feature that has data, whatever
\* its value, a colour of the colour list and not noDataColor; it gives
\* noDataColor only for codes without data and for unknown codes
C27_DataAlwaysColoured ==
    getColor.called =>
        /\ \A i \in DOMAIN enhancedGeoJson :
              enhancedGeoJson[i].hasData =>
                  /\ getColorCall(getColor, enhancedGeoJson[i].cvegeo) \in ColoursOf(colorScale)
                  /\ getColorCall(getColor, enhancedGeoJson[i].cvegeo) # getColor.noDataColor
        /\ \A c \in AskedCodes :
              getColorCall(getColor, c) = getColor.noDataColor =>
                  \A i \in DOMAIN enhancedGeoJson :
                      enhancedGeoJson[i].cvegeo = c => ~enhancedGeoJson[i].hasData

\* the break indices (from 1) that a value reaches
BreaksReached(value, breaks) == { k \in DOMAIN breaks : GE(value, breaks[k]) }

\* the largest element of a non-empty set of numbers
Largest(S) == CHOOSE k \in S : \A h \in S : h <= k

\* C28: a feature with the data value v is given colors[min(i, N-1)] for the
\* largest break index i with v >= breaks[i], colors[0] when there is none;
\* so a value equal to a break is in the bin of that break or a higher one
\* and the colour is one of the colour list, for either method
C28_ColourOfLargestBreak ==
    (getColor.called /\ ~getColor.constant) =>
        \A i \in DOMAIN enhancedGeoJson :
            enhancedGeoJson[i].hasData =>
                LET v == enhancedGeoJson[i].value
                    reached == BreaksReached(v, getColor.breaks)
                    colour == getColorCall(getColor, enhancedGeoJson[i].cvegeo)
                IN  /\ colour = IF reached = {} THEN colorScale[1]
                                ELSE colorScale[Min(Largest(reached), Len(colorScale))]
                    /\ colour \in ColoursOf(colorScale)
                    /\ \A k \in DOMAIN getColor.breaks :
                          getColor.breaks[k] = Num(v) =>
                              Position(colorScale, colour) >= Min(k, Len(colorScale))

\* ------------------------------------------- Layer State Store claims, continued

\* the fields of a layer that describe its data and its loading
DataState(l) == <<l.isLoading, l.hasData, l.dataCount, l.lastUpdated>>

\* C29: the visibility operations leave isLoading, hasData, dataCount and
\* lastUpdated of every layer as they are; setLayerLoading changes only the
\* isLoading of its layer; setLayerData changes only hasData, dataCount (the
\* count passed, or undefined when none is) and lastUpdated of its layer;
\* and both change nothing and call no listener for an unknown id
C29_OperationsChangeOwnFields ==
    [][ /\ lastOp'.op \in {"toggleLayer", "setLayerVisibility", "showOnlyLayer", "hideAllLayers"} =>
              \A r \in DOMAIN heap : DataState(heap'[r]) = DataState(heap[r])
        /\ (lastOp'.op = "setLayerLoading" /\ lastOp'.id \in ConfiguredIds) =>
              \A r \in DOMAIN heap :
                  IF r = MapGet(layers, lastOp'.id)
                  THEN [heap'[r] EXCEPT !.isLoading = heap[r].isLoading] = heap[r]
                  ELSE heap'[r] = heap[r]
        /\ (lastOp'.op = "setLayerData" /\ lastOp'.id \in ConfiguredIds) =>
              \A r \in DOMAIN heap :
                  IF r = MapGet(layers, lastOp'.id)
                  THEN /\ [heap'[r] EXCEPT !.hasData = heap[r].hasData,
                                           !.dataCount = heap[r].dataCount,
                                           !.lastUpdated = heap[r].lastUpdated] = heap[r]
                       /\ heap'[r].dataCount = lastOp'.dataCount
                  ELSE heap'[r] = heap[r]
        /\ (lastOp'.op \in {"setLayerLoading", "setLayerData"} /\ lastOp'.id \notin ConfiguredIds) =>
              /\ heap' = heap
              /\ layers' = layers
              /\ calls' = <<>>
      ]_vars

\* setLayerData was called without a count on a layer that is shown: the
\* layer has data, no count, and is still shown
C29_Witness ==
    /\ lastOp.op = "setLayerData"
    /\ lastOp.id = "desapariciones"
    /\ lastOp.dataCount = Undefined
    /\ heap[MapGet(layers, "desapariciones")].hasData
    /\ heap[MapGet(layers, "desapariciones")].dataCount = Undefined
    /\ heap[MapGet(layers, "desapariciones")].lastUpdated # NoDate
    /\ heap[MapGet(layers, "desapariciones")].isVisible

====
